---- MODULE Spec2Model ----
(***************************************************************************)
(* The Strike proxy route of tahoebtc (src/app/api/strike/[...path]/       *)
(* route.ts): four handlers GET, POST, PATCH and DELETE that forward an    *)
(* inbound request to https://api.strike.me/v1 with a bearer credential    *)
(* read from process.env.STRIKE_API_KEY.                                   *)
(*                                                                         *)
(* Texts (query strings, header values, bodies) are TLA+ strings, and the  *)
(* conversions the handlers apply to them (Array.prototype.join,           *)
(* URLSearchParams parsing and serialisation, JSON.parse, JSON.stringify,  *)
(* String.prototype.includes) are computed character by character.         *)
(***************************************************************************)
EXTENDS Integers, Sequences, FiniteSets, TLC

(***************************************************************************)
(* Bounds of the model.                                                    *)
(***************************************************************************)
\* Number of inbound requests the server handles at the same time in SpecConc.
MaxConcurrent == 2

\* Clicks on the timeframe buttons of the chart widget.
MaxClicks == 2

\* Age of the live-price widget, in milliseconds.
MaxElapsed == 90000

\* Mounts of the calculator.
MaxMounts == 2

\* Activations of the theme toggles.
MaxActivations == 6

Slots == 1..MaxConcurrent

(***************************************************************************)
(* Strings.                                                                *)
(***************************************************************************)
Char(s, i) == SubSeq(s, i, i)

Digits == {"0", "1", "2", "3", "4", "5", "6", "7", "8", "9"}

\* Whether the text word stands at position i of s.
StartsWith(s, i, word) ==
    /\ i + Len(word) - 1 <= Len(s)
    /\ SubSeq(s, i, i + Len(word) - 1) = word

\* String.prototype.includes(sub), case-sensitive as in JavaScript.
Includes(s, sub) ==
    \E i \in 1..(Len(s) + 1) : StartsWith(s, i, sub)

\* Array.prototype.join(sep) on an array of strings.
RECURSIVE Join(_, _)
Join(parts, sep) ==
    IF Len(parts) = 0 THEN ""
    ELSE IF Len(parts) = 1 THEN parts[1]
    ELSE parts[1] \o sep \o Join(Tail(parts), sep)

\* The first position >= i of s that holds the character c, or Len(s) + 1.
RECURSIVE Find(_, _, _)
Find(s, c, i) ==
    IF i > Len(s) THEN Len(s) + 1
    ELSE IF Char(s, i) = c THEN i
    ELSE Find(s, c, i + 1)

\* The pieces of s between occurrences of the character c.
RECURSIVE Split(_, _)
Split(s, c) ==
    LET j == Find(s, c, 1)
    IN  IF j > Len(s) THEN <<s>>
        ELSE <<SubSeq(s, 1, j - 1)>> \o Split(SubSeq(s, j + 1, Len(s)), c)

(***************************************************************************)
(* url.searchParams: the query string parsed into a list of name/value     *)
(* pairs (empty pieces between '&' are skipped, a piece without '=' has    *)
(* the empty value), and toString() writing the list back as name=value    *)
(* joined by '&'.  Percent-encoding is outside the model: the query        *)
(* strings drawn contain only letters, digits, '=' and '&'.                *)
(***************************************************************************)
ParsePiece(piece) ==
    LET j == Find(piece, "=", 1)
    IN  IF j > Len(piece) THEN <<piece, "">>
        ELSE <<SubSeq(piece, 1, j - 1), SubSeq(piece, j + 1, Len(piece))>>

NonEmpty(piece) == piece # ""

URLSearchParams(search) ==
    LET pieces == SelectSeq(Split(search, "&"), NonEmpty)
    IN  [i \in 1..Len(pieces) |-> ParsePiece(pieces[i])]

SearchParamsToString(params) ==
    Join([i \in 1..Len(params) |-> params[i][1] \o "=" \o params[i][2]], "&")

(***************************************************************************)
(* JSON values as JavaScript holds them: an object is an ordered list of   *)
(* members, a number or a string is its literal.                           *)
(***************************************************************************)
JsObject(members) == [type |-> "object", lit |-> "", members |-> members]
JsString(s) == [type |-> "string", lit |-> s, members |-> <<>>]
JsNumber(digits) == [type |-> "number", lit |-> digits, members |-> <<>>]
JsLiteral(word) == [type |-> word, lit |-> "", members |-> <<>>]
JsUndefined == [type |-> "undefined", lit |-> "", members |-> <<>>]

\* obj[key] of a JSON object, undefined where there is no such member.
JsGet(obj, key) ==
    IF \E i \in 1..Len(obj.members) : obj.members[i][1] = key
    THEN obj.members[CHOOSE i \in 1..Len(obj.members) : obj.members[i][1] = key][2]
    ELSE JsUndefined

Token(kind, text) == [k |-> kind, v |-> text]

\* The first position >= i of s that holds no digit.
RECURSIVE EndOfDigits(_, _)
EndOfDigits(s, i) ==
    IF i > Len(s) \/ Char(s, i) \notin Digits THEN i ELSE EndOfDigits(s, i + 1)

\* The tokens of a JSON text from position i on; whitespace between tokens
\* is skipped and a character that starts no token yields the token "bad".
RECURSIVE Lex(_, _)
Lex(s, i) ==
    IF i > Len(s) THEN <<>>
    ELSE LET c == Char(s, i)
         IN  IF c = " " THEN Lex(s, i + 1)
             ELSE IF c \in {"{", "}", ":", ","}
                  THEN <<Token(c, "")>> \o Lex(s, i + 1)
             ELSE IF c = "\""
                  THEN LET j == Find(s, "\"", i + 1)
                       IN  IF j > Len(s) THEN <<Token("bad", "")>>
                           ELSE <<Token("string", SubSeq(s, i + 1, j - 1))>>
                                \o Lex(s, j + 1)
             ELSE IF c \in Digits
                  THEN LET j == EndOfDigits(s, i)
                       IN  IF c = "0" /\ j > i + 1 THEN <<Token("bad", "")>>
                           ELSE <<Token("number", SubSeq(s, i, j - 1))>> \o Lex(s, j)
             ELSE IF StartsWith(s, i, "true")
                  THEN <<Token("true", "")>> \o Lex(s, i + 4)
             ELSE IF StartsWith(s, i, "null")
                  THEN <<Token("null", "")>> \o Lex(s, i + 4)
             ELSE IF StartsWith(s, i, "false")
                  THEN <<Token("false", "")>> \o Lex(s, i + 5)
             ELSE <<Token("bad", "")>>

Failed == [ok |-> FALSE, value |-> JsUndefined, next |-> 0]
Parsed(value, next) == [ok |-> TRUE, value |-> value, next |-> next]

\* Assigning obj[key] = value: a repeated key keeps its place and takes the
\* later value.
SetMember(members, key, value) ==
    IF \E i \in 1..Len(members) : members[i][1] = key
    THEN [i \in 1..Len(members) |->
             IF members[i][1] = key THEN <<key, value>> ELSE members[i]]
    ELSE Append(members, <<key, value>>)

RECURSIVE ParseValue(_, _)
RECURSIVE ParseMembers(_, _, _)
\* The JSON value that starts at token i.
ParseValue(toks, i) ==
    IF i > Len(toks) THEN Failed
    ELSE LET t == toks[i]
         IN  IF t.k = "string" THEN Parsed(JsString(t.v), i + 1)
             ELSE IF t.k = "number" THEN Parsed(JsNumber(t.v), i + 1)
             ELSE IF t.k \in {"true", "false", "null"} THEN Parsed(JsLiteral(t.k), i + 1)
             ELSE IF t.k = "{"
                  THEN IF i + 1 <= Len(toks) /\ toks[i + 1].k = "}"
                       THEN Parsed(JsObject(<<>>), i + 2)
                       ELSE ParseMembers(toks, i + 1, <<>>)
             ELSE Failed

\* The members of an object from token i on, up to the closing brace.
ParseMembers(toks, i, members) ==
    IF i + 1 > Len(toks) \/ toks[i].k # "string" \/ toks[i + 1].k # ":" THEN Failed
    ELSE LET r == ParseValue(toks, i + 2)
         IN  IF ~r.ok \/ r.next > Len(toks) THEN Failed
             ELSE LET more == SetMember(members, toks[i].v, r.value)
                  IN  IF toks[r.next].k = "}" THEN Parsed(JsObject(more), r.next + 1)
                      ELSE IF toks[r.next].k = "," THEN ParseMembers(toks, r.next + 1, more)
                      ELSE Failed

\* JSON.parse(text): ok is FALSE where JSON.parse throws a SyntaxError (the
\* empty text included).
JSONparse(text) ==
    LET toks == Lex(text, 1)
        r == ParseValue(toks, 1)
    IN  IF r.ok /\ r.next = Len(toks) + 1
        THEN [ok |-> TRUE, value |-> r.value]
        ELSE [ok |-> FALSE, value |-> JsUndefined]

\* JSON.stringify(value).  String literals of the model hold no character
\* that needs escaping.
RECURSIVE JSONstringify(_)
JSONstringify(v) ==
    IF v.type = "object"
    THEN "{" \o Join([i \in 1..Len(v.members) |->
                        "\"" \o v.members[i][1] \o "\":" \o JSONstringify(v.members[i][2])],
                     ",") \o "}"
    ELSE IF v.type = "string" THEN "\"" \o v.lit \o "\""
    ELSE IF v.type = "number" THEN v.lit
    ELSE v.type

(***************************************************************************)
(* The data of the route.                                                  *)
(***************************************************************************)
STRIKE_API_BASE == "https://api.strike.me/v1"

\* A value that may be missing: an environment variable, a header.
Missing == [set |-> FALSE, value |-> ""]
Present(v) == [set |-> TRUE, value |-> v]

\* JavaScript truthiness of a string that may be undefined.
Truthy(x) == x.set /\ x.value # ""

\* The values process.env.STRIKE_API_KEY takes.
EnvValues == {Missing, Present(""), Present("sk_1"), Present("sk_2")}

Methods == {"GET", "POST", "PATCH", "DELETE"}

\* An inbound request: path holds the segments matched by [...path], search
\* the query string of request.url without its '?'.
NextRequest(method, path, search, authorization, body) ==
    [method |-> method, path |-> path, search |-> search,
     authorization |-> authorization, body |-> body]

NoRequest == NextRequest("", <<>>, "", "", "")

InboundPaths == {<<"foo">>, <<"invoices", "42">>}
InboundSearches == {"", "x=1", "x&&y=2", "&"}
InboundBodies == {"", "{ \"a\": 1 }", "nope"}
InboundAuthorization == "Bearer caller"

Inbound ==
    {NextRequest(m, p, q, InboundAuthorization, b) :
        m \in Methods, p \in InboundPaths, q \in InboundSearches, b \in InboundBodies}

InboundConc ==
    {NextRequest("GET", <<"foo">>, "x=1", InboundAuthorization, ""),
     NextRequest("POST", <<"invoices", "42">>, "", InboundAuthorization, "{ \"a\": 1 }"),
     NextRequest("DELETE", <<"foo">>, "", InboundAuthorization, "")}

\* What the upstream does with an outbound call: the fetch promise rejects,
\* or it resolves to a Response with a status, maybe a content-type header,
\* and a body that reads as text or fails while being read.
Response(status, contentType, readable, text) ==
    [kind |-> "response", status |-> status, contentType |-> contentType,
     readable |-> readable, text |-> text]

Rejected ==
    [kind |-> "rejected", status |-> 0, contentType |-> Missing,
     readable |-> FALSE, text |-> ""]

NoAnswer ==
    [kind |-> "none", status |-> 0, contentType |-> Missing,
     readable |-> FALSE, text |-> ""]

UpstreamStatuses == {200, 201, 404, 500}
UpstreamContentTypes ==
    {Missing, Present("application/json; charset=utf-8"), Present("text/plain"),
     Present("Application/JSON")}
UpstreamTexts == {"{\"id\": 7}", "", "Not Found"}

Answers ==
    {Rejected}
    \cup {Response(st, ct, TRUE, t) :
            st \in UpstreamStatuses, ct \in UpstreamContentTypes, t \in UpstreamTexts}
    \cup {Response(st, ct, FALSE, "") :
            st \in UpstreamStatuses, ct \in UpstreamContentTypes}
    \cup {Response(204, Missing, TRUE, "")}

AnswersConc ==
    {Rejected,
     Response(200, Present("application/json; charset=utf-8"), TRUE, "{\"id\": 7}"),
     Response(404, Present("text/plain"), TRUE, "Not Found")}

\* response.ok
ResponseOk(response) == response.status >= 200 /\ response.status <= 299

\* NextResponse.json(value, {status}); without init the status is 200.
NextResponseJson(value, status) == [status |-> status, json |-> value]

NoReply == [status |-> 0, json |-> JsUndefined]

\* The init argument of an outbound fetch(url, init).
FetchCall(url, method, authorization, body) ==
    [url |-> url, method |-> method, authorization |-> authorization,
     contentType |-> "application/json", body |-> body]

(***************************************************************************)
(* The page's widgets (BitcoinChartWidget, BitcoinPriceWidget,             *)
(* IkonPassCalculator).  A JavaScript number is kept exactly, as the       *)
(* fraction n/d with d > 0, or as NaN or an infinity (n is then its sign); *)
(* the rounding error of doubles is left out.  Timestamps are counted in   *)
(* hours, not milliseconds.                                                *)
(***************************************************************************)
RECURSIVE GCD(_, _)
GCD(a, b) == IF b = 0 THEN a ELSE GCD(b, a % b)

\* The fraction n/d in lowest terms.
Number(n, d) ==
    LET g == GCD(IF n < 0 THEN -n ELSE n, d)
    IN  [kind |-> "finite", n |-> n \div g, d |-> d \div g]

NaN == [kind |-> "NaN", n |-> 0, d |-> 1]

Infinity(sign) == [kind |-> "Infinity", n |-> sign, d |-> 1]

Whole(n) == Number(n, 1)

Finite(a) == a.kind = "finite"

Sign(n) == IF n < 0 THEN -1 ELSE IF n > 0 THEN 1 ELSE 0

Abs(n) == IF n < 0 THEN -n ELSE n

\* The result of an operation one of whose operands is not finite, for the
\* operands the widgets meet (no Infinity - Infinity, no Infinity * 0).
NonFinite(a, b) ==
    IF a.kind = "NaN" \/ b.kind = "NaN" THEN NaN
    ELSE IF a.kind = "Infinity" THEN a ELSE b

\* a + b, a - b, a * b, a / b
Plus(a, b) ==
    IF Finite(a) /\ Finite(b) THEN Number(a.n * b.d + b.n * a.d, a.d * b.d)
    ELSE NonFinite(a, b)

Minus(a, b) ==
    IF Finite(a) /\ Finite(b) THEN Number(a.n * b.d - b.n * a.d, a.d * b.d)
    ELSE NonFinite(a, [b EXCEPT !.n = -b.n])

Times(a, b) ==
    IF Finite(a) /\ Finite(b) THEN Number(a.n * b.n, a.d * b.d)
    ELSE NonFinite(a, b)

Divide(a, b) ==
    IF ~(Finite(a) /\ Finite(b)) THEN NonFinite(a, b)
    ELSE IF b.n = 0 THEN (IF a.n = 0 THEN NaN ELSE Infinity(Sign(a.n)))
    ELSE Number(a.n * b.d * Sign(b.n), a.d * Abs(b.n))

\* a === b, a <= b, a >= b: every comparison with NaN is false.
Equal(a, b) ==
    IF Finite(a) /\ Finite(b) THEN a.n * b.d = b.n * a.d
    ELSE a.kind = "Infinity" /\ a = b

AtMost(a, b) ==
    IF Finite(a) /\ Finite(b) THEN a.n * b.d <= b.n * a.d
    ELSE /\ a.kind # "NaN" /\ b.kind # "NaN"
         /\ \/ a = b
            \/ a.kind = "Infinity" /\ a.n < 0
            \/ b.kind = "Infinity" /\ b.n > 0

AtLeast(a, b) == AtMost(b, a)

\* a || b of numbers: 0 and NaN are falsy.
OrElse(a, b) == IF a.kind = "NaN" \/ (Finite(a) /\ a.n = 0) THEN b ELSE a

\* Number.prototype.toFixed(2): the sign is taken off first, the magnitude is
\* rounded to hundredths (a tie goes to the larger), so a negative number that
\* rounds to zero reads "-0.00".
Hundredths(a) == (2 * Abs(a.n) * 100 + a.d) \div (2 * a.d)

TwoDigits(n) == IF n < 10 THEN "0" \o ToString(n) ELSE ToString(n)

toFixed2(a) ==
    IF a.kind = "NaN" THEN "NaN"
    ELSE IF a.kind = "Infinity" THEN (IF a.n < 0 THEN "-Infinity" ELSE "Infinity")
    ELSE (IF a.n < 0 THEN "-" ELSE "")
         \o ToString(Hundredths(a) \div 100) \o "."
         \o TwoDigits(Hundredths(a) % 100)

\* CHART_TIMEFRAMES: the timeframes and their days.
CHART_TIMEFRAMES ==
    <<[value |-> "1D", days |-> 1], [value |-> "7D", days |-> 7],
      [value |-> "30D", days |-> 30], [value |-> "90D", days |-> 90],
      [value |-> "1Y", days |-> 365]>>

TimeframeValues == {CHART_TIMEFRAMES[i].value : i \in DOMAIN CHART_TIMEFRAMES}

\* CHART_TIMEFRAMES.find(t => t.value === timeframe)?.days || 7
DaysOf(timeframe) ==
    IF timeframe \in TimeframeValues
    THEN LET t == CHOOSE t \in {CHART_TIMEFRAMES[i] : i \in DOMAIN CHART_TIMEFRAMES} :
                      t.value = timeframe
         IN  IF t.days = 0 THEN 7 ELSE t.days
    ELSE 7

\* The GET the chart widget issues for a timeframe.
ChartUrl(days) ==
    "https://api.coingecko.com/api/v3/coins/bitcoin/market_chart?vs_currency=usd&days="
    \o ToString(days) \o "&interval=" \o (IF days = 1 THEN "hourly" ELSE "daily")

Sample(timestamp, price) == [timestamp |-> timestamp, price |-> price]

\* data.prices.map(([timestamp, price]) => ({timestamp, price}))
FormattedData(prices) == [i \in DOMAIN prices |-> Sample(prices[i][1], prices[i][2])]

\* Array.from({length: 20}, ...): the length of the fallback series.
MockLength == 20

\* Outcomes of the calls of Math.random() of one fallback series, in
\* ten-thousandths (the first is the series of equal prices).
RandomDraws == {[i \in 1..MockLength |-> (i * seed) % 10000] : seed \in {0, 1237, 9999}}

\* Values of Date.now(), in hours.
Clock == {480000}

\* The fallback series: one sample a day up to now, priced
\* 70000 + Math.random() * 10000 - 5000.
MockData(now, random) ==
    [i \in 1..MockLength |->
        Sample(now - (19 - (i - 1)) * 24, 70000 + random[i] - 5000)]

\* What the CoinGecko call settles to: a rejection, or a response with a
\* status and a body; payload says what response.json() makes of the body
\* ("invalid": it rejects; "no prices": an object without prices).
ChartAnswer(kind, status, payload, prices) ==
    [kind |-> kind, status |-> status, payload |-> payload, prices |-> prices]

ChartRejected == ChartAnswer("rejected", 0, "invalid", <<>>)

\* Series of [timestamp, price] pairs: none, one sample, equal prices, a
\* fall below half a hundredth of a percent, unevenly spaced samples.
PriceSeries ==
    {<<>>,
     <<<<479900, 70000>>>>,
     <<<<479900, 70000>>, <<479924, 70000>>, <<479948, 70000>>>>,
     <<<<479900, 70000>>, <<479924, 69999>>>>,
     <<<<479900, 60000>>, <<479901, 66000>>, <<479905, 63000>>>>}

ChartAnswers ==
    {ChartRejected}
    \cup {ChartAnswer("response", 200, "prices", s) : s \in PriceSeries}
    \cup {ChartAnswer("response", 200, "invalid", <<>>),
          ChartAnswer("response", 200, "no prices", <<>>),
          ChartAnswer("response", 429, "invalid", <<>>),
          ChartAnswer("response", 500, "prices", <<<<479900, 60000>>, <<479924, 66000>>>>)}

\* Whether the try block of fetchChartData throws: fetch rejects, the status
\* is no success, response.json() rejects or data.prices is undefined.
ChartThrows(answer) ==
    \/ answer.kind = "rejected"
    \/ ~ResponseOk(answer)
    \/ answer.payload # "prices"

\* The series and the error flag fetchChartData sets as it completes.
ChartSettled(answer, now, random) ==
    IF ChartThrows(answer)
    THEN [chartData |-> MockData(now, random), error |-> Present("Failed to load chart data")]
    ELSE [chartData |-> FormattedData(answer.prices), error |-> Missing]

calculateChange(chartData) ==
    IF Len(chartData) < 2 THEN [amount |-> Whole(0), percentage |-> Whole(0)]
    ELSE LET first == Whole(chartData[1].price)
             last == Whole(chartData[Len(chartData)].price)
             amount == Minus(last, first)
         IN  [amount |-> amount, percentage |-> Times(Divide(amount, first), Whole(100))]

\* Variant: the sign is taken from the percentage as it is displayed, so a
\* change that rounds to zero counts as positive.
isPositiveAsDisplayed(chartData) ==
    \/ AtLeast(calculateChange(chartData).amount, Whole(0))
    \/ Hundredths(calculateChange(chartData).percentage) = 0

isPositive(chartData) == AtLeast(calculateChange(chartData).amount, Whole(0))

\* The percentage line of the header: {isPositive ? '+' : ''}
\* {change.percentage.toFixed(2)}%
ChangeLine(chartData) ==
    [prefix |-> IF isPositive(chartData) THEN "+" ELSE "",
     percentage |-> toFixed2(calculateChange(chartData).percentage)]

\* The drawing area of createPath, createGradient and the data points.
width == 400
height == 120
padding == 10

MinPrice(chartData) ==
    CHOOSE p \in {chartData[i].price : i \in DOMAIN chartData} :
        \A i \in DOMAIN chartData : p <= chartData[i].price

MaxPrice(chartData) ==
    CHOOSE p \in {chartData[i].price : i \in DOMAIN chartData} :
        \A i \in DOMAIN chartData : p >= chartData[i].price

\* maxPrice - minPrice || 1
PriceRange(chartData) == OrElse(Whole(MaxPrice(chartData) - MinPrice(chartData)), Whole(1))

\* Variant: x is the place of the sample's timestamp between the first
\* and the last timestamp.
PointXByTimestamp(chartData, index) ==
    Plus(Whole(padding),
         Times(Divide(Whole(chartData[index + 1].timestamp - chartData[1].timestamp),
                      Whole(chartData[Len(chartData)].timestamp - chartData[1].timestamp)),
               Whole(width - 2 * padding)))

\* The x and y of the sample at index (from 0).
PointX(chartData, index) ==
    Plus(Whole(padding),
         Times(Divide(Whole(index), Whole(Len(chartData) - 1)), Whole(width - 2 * padding)))

PointY(chartData, index) ==
    Minus(Whole(height - padding),
          Times(Divide(Whole(chartData[index + 1].price - MinPrice(chartData)),
                       PriceRange(chartData)),
                Whole(height - 2 * padding)))

\* createPath(): the points of the path "M x,y L x,y ...", none for the
\* empty text.
createPath(chartData) ==
    IF Len(chartData) = 0 THEN <<>>
    ELSE [i \in 1..Len(chartData) |->
             [x |-> PointX(chartData, i - 1), y |-> PointY(chartData, i - 1)]]

\* What the chart area shows: loading ? spinner : error ? message : svg.
\* Variant: the svg is drawn whenever loading has finished, the fallback
\* series of a failure too.
ChartAreaDrawingFallback(loading, error) == IF loading THEN "spinner" ELSE "chart"

ChartArea(loading, error) ==
    IF loading THEN "spinner" ELSE IF Truthy(error) THEN "failed" ELSE "chart"

\* The points the chart area draws: those of createPath() where it shows the
\* svg, none under the spinner or the failure message.
DrawnPath(chartData, loading, error) ==
    IF ChartArea(loading, error) = "chart" THEN createPath(chartData) ELSE <<>>

\* The indices of the samples drawn as data points: every
\* max(1, floor(length / 8))-th one, in the svg alone.
DataPoints(chartData, loading, error) ==
    IF ChartArea(loading, error) = "chart"
    THEN LET every == IF Len(chartData) \div 8 > 1 THEN Len(chartData) \div 8 ELSE 1
         IN  {index \in 0..(Len(chartData) - 1) : index % every = 0}
    ELSE {}

\* The Retry button of the chart area stands in its failure message.
ChartRetryShown(loading, error) == ChartArea(loading, error) = "failed"

\* The Low and High line: !loading && !error && chartData.length > 0.
PriceRangeShown(chartData, loading, error) ==
    ~loading /\ ~Truthy(error) /\ Len(chartData) > 0

\* The digits of a JSON number as an integer.
RECURSIVE ToInt(_)
ToInt(digits) ==
    IF digits = "" THEN 0
    ELSE 10 * ToInt(SubSeq(digits, 1, Len(digits) - 1))
         + (CHOOSE d \in 0..9 : ToString(d) = SubSeq(digits, Len(digits), Len(digits)))

\* A parsed JSON value as an operand of arithmetic: undefined is NaN.
NumberOf(v) == IF v.type = "number" THEN Whole(ToInt(v.lit)) ELSE NaN

\* JavaScript truthiness of a parsed JSON value.
JsTruthy(v) ==
    \/ v.type \in {"object", "true"}
    \/ v.type = "string" /\ v.lit # ""
    \/ v.type = "number" /\ ToInt(v.lit) # 0

JsNull == JsLiteral("null")

\* What a call of https://blockchain.info/ticker settles to: a rejection, or
\* a response with a status and a body text.
TickerAnswer(kind, status, text) == [kind |-> kind, status |-> status, text |-> text]

TickerUrl == "https://blockchain.info/ticker"

TickerRejected == TickerAnswer("rejected", 0, "")

TickerTexts ==
    {"{\"USD\": {\"last\": 67000}}", "{\"USD\": {\"last\": 120000}}",
     "{\"USD\": {\"last\": 0}}", "{\"USD\": {}}", "{\"error\": 1}", "nope"}

TickerAnswers ==
    {TickerRejected} \cup {TickerAnswer("response", s, t) : s \in {200, 500}, t \in TickerTexts}

\* data = await response.json()
TickerData(answer) == JSONparse(answer.text)

\* Whether await fetch, await response.json() or data.USD.last throws: the
\* status of the response is not looked at.
TickerThrows(answer) ==
    \/ answer.kind = "rejected"
    \/ ~TickerData(answer).ok
    \/ TickerData(answer).value.type \in {"undefined", "null"}
    \/ JsGet(TickerData(answer).value, "USD").type \in {"undefined", "null"}

\* data.USD.last
TickerLast(answer) == JsGet(JsGet(TickerData(answer).value, "USD"), "last")

\* setInterval(fetchPrice, 30000)
IntervalMs == 30000

\* The price and the error flag fetchPrice sets as it completes.
PriceSettled(price, answer) ==
    IF TickerThrows(answer)
    THEN [price |-> price, error |-> Present("Failed to fetch price")]
    ELSE [price |-> TickerLast(answer), error |-> Missing]

\* homeData: the median home prices.
homeData ==
    [reno |-> [price |-> 607500, location |-> "Reno"],
     truckee |-> [price |-> 1140000, location |-> "Truckee"]]

\* The digits of a whole number in groups of three.
RECURSIVE Grouped(_)
Grouped(n) ==
    IF n < 1000 THEN ToString(n)
    ELSE Grouped(n \div 1000) \o ","
         \o (IF n % 1000 < 10 THEN "00" ELSE IF n % 1000 < 100 THEN "0" ELSE "")
         \o ToString(n % 1000)

\* Number.prototype.toLocaleString() of a whole number, en-US (the infinity
\* sign it gives for an infinite number is spelled out here).
toLocaleString(a) ==
    IF a.kind = "NaN" THEN "NaN"
    ELSE IF a.kind = "Infinity" THEN (IF a.n < 0 THEN "-Infinity" ELSE "Infinity")
    ELSE (IF a.n < 0 THEN "-" ELSE "") \o Grouped(Abs(a.n) \div a.d)

\* The nearest number of ten-thousandths.
TenThousandths(a) == (2 * Abs(a.n) * 10000 + a.d) \div (2 * a.d)

FourDigits(n) ==
    (IF n < 10 THEN "000" ELSE IF n < 100 THEN "00" ELSE IF n < 1000 THEN "0" ELSE "")
    \o ToString(n)

\* Number.prototype.toFixed(4).
toFixed4(a) ==
    IF a.kind = "NaN" THEN "NaN"
    ELSE IF a.kind = "Infinity" THEN (IF a.n < 0 THEN "-Infinity" ELSE "Infinity")
    ELSE (IF a.n < 0 THEN "-" ELSE "")
         \o ToString(TenThousandths(a) \div 10000) \o "."
         \o FourDigits(TenThousandths(a) % 10000)

DisplayModes == {"usd", "reno", "truckee"}

\* formatValue(): the price in the unit of the display mode.
formatValue(price, displayMode) ==
    IF ~JsTruthy(price) THEN "Loading..."
    ELSE CASE displayMode = "usd" -> "$" \o toLocaleString(NumberOf(price))
           [] displayMode = "reno" ->
                  toFixed4(Divide(NumberOf(price), Whole(homeData.reno.price))) \o " Homes"
           [] displayMode = "truckee" ->
                  toFixed4(Divide(NumberOf(price), Whole(homeData.truckee.price))) \o " Homes"
           [] OTHER -> "$" \o toLocaleString(NumberOf(price))

\* Variant: 'Error' is shown only while no price is held.
PriceValueKeepingPrice(w) ==
    IF Truthy(w.error) /\ ~JsTruthy(w.price) THEN "Error"
    ELSE formatValue(w.price, w.displayMode)

\* The value the widget shows: {error ? 'Error' : formatValue()}.
PriceValue(w) == IF Truthy(w.error) THEN "Error" ELSE formatValue(w.price, w.displayMode)

\* The Retry button is rendered: {error && (<button ...>Retry</button>)}.
PriceRetryShown(w) == Truthy(w.error)

\* setBtcPrice(70000) of the calculator's catch block.
FallbackPrice == 70000

\* The price fetchCurrentPrice sets as it completes.
BtcPriceSettled(answer) ==
    IF TickerThrows(answer) THEN JsNumber(ToString(FallbackPrice)) ELSE TickerLast(answer)

ikonPrices ==
    [y \in {"2018", "2019", "2020", "2021", "2022", "2023", "2024"} |->
        CASE y = "2018" -> 999 [] y = "2019" -> 999 [] y = "2020" -> 1049
          [] y = "2021" -> 1149 [] y = "2022" -> 1169 [] y = "2023" -> 1159
          [] y = "2024" -> 1429]

btcHistoricalPrices ==
    [y \in {"2018", "2019", "2020", "2021", "2022", "2023", "2024"} |->
        CASE y = "2018" -> 6347 [] y = "2019" -> 9150 [] y = "2020" -> 13780
          [] y = "2021" -> 61350 [] y = "2022" -> 20550 [] y = "2023" -> 34500
          [] y = "2024" -> 69500]

\* table[key] as an operand of arithmetic: undefined, so NaN, without the key.
Lookup(table, key) == IF key \in DOMAIN table THEN Whole(table[key]) ELSE NaN

\* const currentBtcPrice = btcPrice || 70000
CurrentBtcPrice(btcPrice) == IF JsTruthy(btcPrice) THEN NumberOf(btcPrice) ELSE Whole(70000)

\* Variant: the gain is the current value, the price paid is not taken off.
calculateWhatIfGross(selectedYear, btcPrice) ==
    LET passPrice == Lookup(ikonPrices, selectedYear)
        historicalBtcPrice == Lookup(btcHistoricalPrices, selectedYear)
        currentBtcPrice == IF JsTruthy(btcPrice) THEN NumberOf(btcPrice) ELSE Whole(70000)
        btcAmount == Divide(passPrice, historicalBtcPrice)
        currentValue == Times(btcAmount, currentBtcPrice)
    IN  [passPrice |-> passPrice,
         btcAmount |-> btcAmount,
         currentValue |-> currentValue,
         gainLoss |-> currentValue,
         gainLossPercent |-> Times(Divide(Minus(currentValue, passPrice), passPrice), Whole(100)),
         historicalBtcPrice |-> historicalBtcPrice]

calculateWhatIf(selectedYear, btcPrice) ==
    LET passPrice == Lookup(ikonPrices, selectedYear)
        historicalBtcPrice == Lookup(btcHistoricalPrices, selectedYear)
        currentBtcPrice == CurrentBtcPrice(btcPrice)
        btcAmount == Divide(passPrice, historicalBtcPrice)
        currentValue == Times(btcAmount, currentBtcPrice)
    IN  [passPrice |-> passPrice,
         btcAmount |-> btcAmount,
         currentValue |-> currentValue,
         gainLoss |-> Minus(currentValue, passPrice),
         gainLossPercent |-> Times(Divide(Minus(currentValue, passPrice), passPrice), Whole(100)),
         historicalBtcPrice |-> historicalBtcPrice]

\* The options of the year select: Object.entries(ikonPrices).
YearOptions == DOMAIN ikonPrices

(***************************************************************************)
(* The state: the process environment, per request being handled the       *)
(* handler's position and locals, and the state of each widget.            *)
(***************************************************************************)
VARIABLES
    env,        \* process.env.STRIKE_API_KEY
    pc,         \* where each handler stands
    request,    \* the inbound request of each handler
    apiKey,     \* const apiKey
    path,       \* const path
    body,       \* const body (POST, PATCH)
    calls,      \* the outbound fetch calls each handler has issued
    upstream,   \* const response: what the handler's fetch settled to
    caught,     \* whether the handler's catch block ran
    reply,      \* the NextResponse the handler returned
    chartWidget,    \* BitcoinChartWidget: its state and its fetches
    priceWidget,    \* BitcoinPriceWidget: its state, its interval and its fetches
    ikonCalculator, \* IkonPassCalculator: its state and its fetch
    themeToggles    \* the ThemeToggle instances and the document's data-theme

proxyVars == <<env, pc, request, apiKey, path, body, calls, upstream, caught, reply>>

vars == <<proxyVars, chartWidget, priceWidget, ikonCalculator, themeToggles>>

\* The widgets before they mount: the useState initial values, no request
\* issued (requests), none in flight (pending), none settled (settled).
ChartInitial ==
    [mounted |-> FALSE, timeframe |-> "7D", chartData |-> <<>>, loading |-> TRUE,
     error |-> Missing, requests |-> <<>>, pending |-> {},
     settled |-> [fetch |-> 0, answer |-> ChartRejected], clicks |-> <<>>]

PriceInitial ==
    [phase |-> "new", price |-> JsNull, displayMode |-> "usd", error |-> Missing,
     interval |-> FALSE, due |-> 0,
     elapsed |-> 0, requests |-> <<>>, pending |-> {},
     settled |-> [fetch |-> 0, answer |-> TickerRejected], issuedAtUnmount |-> 0,
     pendingAtUnmount |-> {}]

\* The ThemeToggle instances Navigation renders: the one of the desktop bar
\* and the one of the mobile bar, both in the page whatever its width.
Toggles == {"desktop", "mobile"}

\* Each instance has its own theme state; the document has no data-theme
\* attribute before an instance sets one.  activations lists the toggles
\* activated so far.
ThemeInitial ==
    [mounted |-> FALSE, theme |-> [t \in Toggles |-> "dark"], dataTheme |-> Missing,
     activations |-> <<>>]

CalculatorInitial ==
    [mounted |-> FALSE, selectedYear |-> "2018", btcPrice |-> JsNull, requests |-> <<>>,
     pending |-> FALSE, settled |-> [fetch |-> 0, answer |-> TickerRejected], mounts |-> 0]

Init ==
    /\ env \in EnvValues
    /\ pc = [r \in Slots |-> "idle"]
    /\ request = [r \in Slots |-> NoRequest]
    /\ apiKey = [r \in Slots |-> Missing]
    /\ path = [r \in Slots |-> ""]
    /\ body = [r \in Slots |-> JsUndefined]
    /\ calls = [r \in Slots |-> <<>>]
    /\ upstream = [r \in Slots |-> NoAnswer]
    /\ caught = [r \in Slots |-> FALSE]
    /\ reply = [r \in Slots |-> NoReply]
    /\ chartWidget = ChartInitial
    /\ priceWidget = PriceInitial
    /\ ikonCalculator = CalculatorInitial
    /\ themeToggles = ThemeInitial

(***************************************************************************)
(* The code of the handlers.  The four handlers are the same text but for  *)
(* the URL (GET alone appends the query), the body (POST and PATCH) and    *)
(* the content-type test (DELETE).                                         *)
(***************************************************************************)
\* Variant: the test apiKey === undefined, which lets an empty credential pass.
NotConfiguredUndefinedOnly(key) == ~key.set

\* if (!apiKey)
NotConfigured(key) == ~Truthy(key)

\* Variant: the status option left out, as on the success path.
NotConfiguredReplyNoStatus ==
    NextResponseJson(JsObject(<<<<"error", JsString("Strike API key not configured")>>>>), 200)

\* NextResponse.json({ error: 'Strike API key not configured' }, { status: 500 })
NotConfiguredReply ==
    NextResponseJson(JsObject(<<<<"error", JsString("Strike API key not configured")>>>>), 500)

\* Variant: every handler appends the query as GET does.
StrikeUrlWithQuery(method, joined, search) ==
    LET searchParams == SearchParamsToString(URLSearchParams(search))
    IN  STRIKE_API_BASE \o "/" \o joined
           \o (IF searchParams # "" THEN "?" \o searchParams ELSE "")

\* const strikeUrl = ...
StrikeUrl(method, joined, search) ==
    IF method = "GET"
    THEN LET searchParams == SearchParamsToString(URLSearchParams(search))
         IN  STRIKE_API_BASE \o "/" \o joined
                \o (IF searchParams # "" THEN "?" \o searchParams ELSE "")
    ELSE STRIKE_API_BASE \o "/" \o joined

\* Variant: the caller's own Authorization header is passed through.
AuthorizationOfCaller(key, inbound) == inbound

\* 'Authorization': `Bearer ${apiKey}`
Authorization(key, inbound) == "Bearer " \o key.value

\* Variant: PATCH forgets the body.
FetchBodyPostOnly(method, parsedBody) ==
    IF method = "POST" THEN Present(JSONstringify(parsedBody)) ELSE Missing

\* body: JSON.stringify(body), in POST and PATCH alone.
FetchBody(method, parsedBody) ==
    IF method \in {"POST", "PATCH"} THEN Present(JSONstringify(parsedBody)) ELSE Missing

\* fetch(strikeUrl, { method, headers, body }) as the handler of r issues it.
Fetch(r, joined, parsedBody) ==
    LET method == request[r].method
    IN  FetchCall(StrikeUrl(method, joined, request[r].search),
                  method,
                  Authorization(apiKey[r], request[r].authorization),
                  FetchBody(method, parsedBody))

\* Variant: the status option left out, as on the success path.
FailedReplyNoStatus(response) ==
    NextResponseJson(
        JsObject(<<<<"error", JsString("Strike API request failed")>>,
                   <<"status", JsNumber(ToString(response.status))>>,
                   <<"message", JsString(response.text)>>>>),
        200)

\* The response to a non-success upstream status.
FailedReply(response) ==
    NextResponseJson(
        JsObject(<<<<"error", JsString("Strike API request failed")>>,
                   <<"status", JsNumber(ToString(response.status))>>,
                   <<"message", JsString(response.text)>>>>),
        response.status)

\* return NextResponse.json(data)
DataReply(response, data) == NextResponseJson(data, 200)

\* Variant: any content-type header counts as JSON.
IsJsonContentTypeAnyHeader(contentType) == Truthy(contentType)

\* contentType && contentType.includes('application/json')
IsJsonContentType(contentType) ==
    Truthy(contentType) /\ Includes(contentType.value, "application/json")

\* return NextResponse.json({ success: true })
SuccessReply == NextResponseJson(JsObject(<<<<"success", JsLiteral("true")>>>>), 200)

\* The catch block's response.
CatchReply ==
    NextResponseJson(
        JsObject(<<<<"error", JsString("Failed to communicate with Strike API")>>>>), 500)

\* Variant: response.json() moved out of the try block.
InsideTryButJson(site) == site \in {"request.json", "fetch", "text"}

\* Variant: response.text() moved out of the try block.
InsideTryButText(site) == site \in {"request.json", "fetch", "json"}

\* Whether an await of the handler stands inside its try block.
InsideTry(site) == site \in {"request.json", "fetch", "text", "json"}

(***************************************************************************)
(* The steps of a handler: one action per stretch of code between awaits.  *)
(***************************************************************************)
\* Variant: the response is kept in a module-level variable all handlers
\* return from.
ReturnShared(r, response) ==
    /\ pc' = [pc EXCEPT ![r] = "done"]
    /\ reply' = [s \in Slots |-> IF s = r \/ pc[s] = "done" THEN response ELSE reply[s]]

\* return NextResponse.json(...)
Return(r, response) ==
    /\ pc' = [pc EXCEPT ![r] = "done"]
    /\ reply' = [reply EXCEPT ![r] = response]

\* An await of the handler throws.
Throw(r, site) ==
    IF InsideTry(site)
    THEN /\ caught' = [caught EXCEPT ![r] = TRUE]
         /\ Return(r, CatchReply)
    ELSE /\ pc' = [pc EXCEPT ![r] = "unhandled"]
         /\ UNCHANGED <<caught, reply>>

\* The operator changes the configured credential.
SetEnv(v) ==
    /\ v # env
    /\ env' = v
    /\ UNCHANGED <<pc, request, apiKey, path, body, calls, upstream, caught, reply>>

\* Next.js hands an inbound request to the handler of its method.
Receive(r, inbound) ==
    /\ pc[r] = "idle"
    /\ pc' = [pc EXCEPT ![r] = "entry"]
    /\ request' = [request EXCEPT ![r] = inbound]
    /\ UNCHANGED <<env, apiKey, path, body, calls, upstream, caught, reply>>

\* const apiKey = process.env.STRIKE_API_KEY; if (!apiKey) return ...
ReadApiKey(r) ==
    /\ pc[r] = "entry"
    /\ apiKey' = [apiKey EXCEPT ![r] = env]
    /\ IF NotConfigured(env)
       THEN Return(r, NotConfiguredReply)
       ELSE /\ pc' = [pc EXCEPT ![r] = "params"]
            /\ UNCHANGED reply
    /\ UNCHANGED <<env, request, path, body, calls, upstream, caught>>

\* await params; path.join('/'); GET and DELETE go on to fetch.
AwaitParams(r) ==
    /\ pc[r] = "params"
    /\ path' = [path EXCEPT ![r] = Join(request[r].path, "/")]
    /\ IF request[r].method \in {"GET", "DELETE"}
       THEN /\ calls' = [calls EXCEPT ![r] = Append(@, Fetch(r, Join(request[r].path, "/"), JsUndefined))]
            /\ pc' = [pc EXCEPT ![r] = "fetch"]
       ELSE /\ pc' = [pc EXCEPT ![r] = "body"]
            /\ UNCHANGED calls
    /\ UNCHANGED <<env, request, apiKey, body, upstream, caught, reply>>

\* Variant: a body that is no JSON is replaced by an empty object and the
\* call is issued all the same.
AwaitRequestJsonLenient(r) ==
    /\ pc[r] = "body"
    /\ LET parsed == JSONparse(request[r].body)
           value == IF parsed.ok THEN parsed.value ELSE JsObject(<<>>)
       IN  /\ body' = [body EXCEPT ![r] = value]
           /\ calls' = [calls EXCEPT ![r] = Append(@, Fetch(r, path[r], value))]
           /\ pc' = [pc EXCEPT ![r] = "fetch"]
           /\ UNCHANGED <<caught, reply>>
    /\ UNCHANGED <<env, request, apiKey, path, upstream>>

\* const body = await request.json(); POST and PATCH go on to fetch.
AwaitRequestJson(r) ==
    /\ pc[r] = "body"
    /\ LET parsed == JSONparse(request[r].body)
       IN  IF parsed.ok
           THEN /\ body' = [body EXCEPT ![r] = parsed.value]
                /\ calls' = [calls EXCEPT ![r] = Append(@, Fetch(r, path[r], parsed.value))]
                /\ pc' = [pc EXCEPT ![r] = "fetch"]
                /\ UNCHANGED <<caught, reply>>
           ELSE /\ Throw(r, "request.json")
                /\ UNCHANGED <<body, calls>>
    /\ UNCHANGED <<env, request, apiKey, path, upstream>>

\* Variant: every handler tests the content type as DELETE does.
AwaitFetchTestingContentType(r, answer) ==
    /\ pc[r] = "fetch"
    /\ upstream' = [upstream EXCEPT ![r] = answer]
    /\ IF answer.kind = "rejected"
       THEN Throw(r, "fetch")
       ELSE IF ~ResponseOk(answer)
       THEN /\ pc' = [pc EXCEPT ![r] = "text"]
            /\ UNCHANGED <<caught, reply>>
       ELSE IF ~IsJsonContentType(answer.contentType)
       THEN /\ Return(r, SuccessReply)
            /\ UNCHANGED caught
       ELSE /\ pc' = [pc EXCEPT ![r] = "json"]
            /\ UNCHANGED <<caught, reply>>
    /\ UNCHANGED <<env, request, apiKey, path, body, calls>>

\* const response = await fetch(...): the call settles with the upstream's
\* answer; if (!response.ok) ...; DELETE tests the content type.
AwaitFetch(r, answer) ==
    /\ pc[r] = "fetch"
    /\ upstream' = [upstream EXCEPT ![r] = answer]
    /\ IF answer.kind = "rejected"
       THEN Throw(r, "fetch")
       ELSE IF ~ResponseOk(answer)
       THEN /\ pc' = [pc EXCEPT ![r] = "text"]
            /\ UNCHANGED <<caught, reply>>
       ELSE IF request[r].method = "DELETE" /\ ~IsJsonContentType(answer.contentType)
       THEN /\ Return(r, SuccessReply)
            /\ UNCHANGED caught
       ELSE /\ pc' = [pc EXCEPT ![r] = "json"]
            /\ UNCHANGED <<caught, reply>>
    /\ UNCHANGED <<env, request, apiKey, path, body, calls>>

\* const errorData = await response.text(); return the failure envelope.
AwaitText(r) ==
    /\ pc[r] = "text"
    /\ IF upstream[r].readable
       THEN /\ Return(r, FailedReply(upstream[r]))
            /\ UNCHANGED caught
       ELSE Throw(r, "text")
    /\ UNCHANGED <<env, request, apiKey, path, body, calls, upstream>>

\* const data = await response.json(); return NextResponse.json(data)
AwaitJson(r) ==
    /\ pc[r] = "json"
    /\ LET parsed == JSONparse(upstream[r].text)
       IN  IF upstream[r].readable /\ parsed.ok
           THEN /\ Return(r, DataReply(upstream[r], parsed.value))
                /\ UNCHANGED caught
           ELSE Throw(r, "json")
    /\ UNCHANGED <<env, request, apiKey, path, body, calls, upstream>>

\* The returned NextResponse goes to the caller and the handler's frame is
\* gone.
Respond(r) ==
    /\ pc[r] = "done"
    /\ pc' = [pc EXCEPT ![r] = "idle"]
    /\ request' = [request EXCEPT ![r] = NoRequest]
    /\ apiKey' = [apiKey EXCEPT ![r] = Missing]
    /\ path' = [path EXCEPT ![r] = ""]
    /\ body' = [body EXCEPT ![r] = JsUndefined]
    /\ calls' = [calls EXCEPT ![r] = <<>>]
    /\ upstream' = [upstream EXCEPT ![r] = NoAnswer]
    /\ caught' = [caught EXCEPT ![r] = FALSE]
    /\ reply' = [reply EXCEPT ![r] = NoReply]
    /\ UNCHANGED env

\* One request at a time, drawn from the full sets of inputs.
Next ==
    /\ \/ \E v \in EnvValues : SetEnv(v)
       \/ \E inbound \in Inbound : Receive(1, inbound)
       \/ ReadApiKey(1)
       \/ AwaitParams(1)
       \/ AwaitRequestJson(1)
       \/ \E answer \in Answers : AwaitFetch(1, answer)
       \/ AwaitText(1)
       \/ AwaitJson(1)
       \/ Respond(1)
    /\ UNCHANGED <<chartWidget, priceWidget, ikonCalculator, themeToggles>>

Spec == Init /\ [][Next]_vars

\* MaxConcurrent requests handled at once, their steps interleaved.
NextConc ==
    /\ \/ \E v \in EnvValues : SetEnv(v)
       \/ \E r \in Slots :
           \/ \E inbound \in InboundConc : Receive(r, inbound)
           \/ ReadApiKey(r)
           \/ AwaitParams(r)
           \/ AwaitRequestJson(r)
           \/ \E answer \in AnswersConc : AwaitFetch(r, answer)
           \/ AwaitText(r)
           \/ AwaitJson(r)
           \/ Respond(r)
    /\ UNCHANGED <<chartWidget, priceWidget, ikonCalculator, themeToggles>>

SpecConc == Init /\ [][NextConc]_vars

\* The steps a handler takes by itself: the stretch of code after an await
\* runs once what it awaits has settled, and the response it returns is sent.
\* The arrival of a request and the answer of the upstream are not among
\* them: the handler sets no timeout on its fetch.
HandlerNext(r) ==
    /\ \/ ReadApiKey(r)
       \/ AwaitParams(r)
       \/ AwaitRequestJson(r)
       \/ AwaitText(r)
       \/ AwaitJson(r)
       \/ Respond(r)
    /\ UNCHANGED <<chartWidget, priceWidget, ikonCalculator, themeToggles>>

\* One request at a time, drawn from a few inputs that take every path of
\* the handlers, each handler step taken in the end.
InboundLive ==
    InboundConc \cup {NextRequest("PATCH", <<"foo">>, "", InboundAuthorization, "nope")}

AnswersLive ==
    AnswersConc
    \cup {Response(200, Present("text/plain"), TRUE, "Not Found"),
          Response(200, Present("application/json; charset=utf-8"), FALSE, ""),
          Response(500, Present("text/plain"), TRUE, "Not Found"),
          Response(500, Missing, FALSE, "")}

NextLive ==
    /\ \/ \E v \in EnvValues : SetEnv(v)
       \/ \E inbound \in InboundLive : Receive(1, inbound)
       \/ \E answer \in AnswersLive : AwaitFetch(1, answer)
       \/ HandlerNext(1)
    /\ UNCHANGED <<chartWidget, priceWidget, ikonCalculator, themeToggles>>

SpecLive == Init /\ [][NextLive]_vars /\ WF_vars(HandlerNext(1))

TypeOK ==
    /\ env \in EnvValues
    /\ \A r \in Slots :
        pc[r] \in {"idle", "entry", "params", "body", "fetch", "text", "json", "done",
                   "unhandled"}

(***************************************************************************)
(* BitcoinChartWidget.  fetchChartData writes the widget's state at two    *)
(* places only: setLoading(true) as the effect starts it, and the series,  *)
(* the error flag and setLoading(false) in one synchronous stretch after   *)
(* its last await; so a fetch is one step that issues it and one that      *)
(* settles it.                                                             *)
(***************************************************************************)
\* The effect of [timeframe]: fetchChartData() up to its first await.
FetchChartData(w) ==
    [w EXCEPT !.loading = TRUE,
              !.requests = Append(w.requests, ChartUrl(DaysOf(w.timeframe))),
              !.pending = w.pending \cup {Len(w.requests) + 1}]

ChartMount ==
    /\ ~chartWidget.mounted
    /\ chartWidget' = FetchChartData([chartWidget EXCEPT !.mounted = TRUE])
    /\ UNCHANGED <<proxyVars, priceWidget, ikonCalculator, themeToggles>>

\* Variant: every click runs the effect, a click on the selected timeframe
\* too.
SetTimeframeAlways(tf) ==
    /\ chartWidget.mounted
    /\ Len(chartWidget.clicks) < MaxClicks
    /\ LET clicked == [chartWidget EXCEPT !.clicks = Append(chartWidget.clicks, tf)]
       IN  chartWidget' = FetchChartData([clicked EXCEPT !.timeframe = tf])
    /\ UNCHANGED <<proxyVars, priceWidget, ikonCalculator, themeToggles>>

\* A click on a timeframe button: setTimeframe(tf.value).  Setting the
\* state to the value it has renders nothing and runs no effect.
SetTimeframe(tf) ==
    /\ chartWidget.mounted
    /\ Len(chartWidget.clicks) < MaxClicks
    /\ LET clicked == [chartWidget EXCEPT !.clicks = Append(chartWidget.clicks, tf)]
       IN  chartWidget' = IF tf = chartWidget.timeframe THEN clicked
                          ELSE FetchChartData([clicked EXCEPT !.timeframe = tf])
    /\ UNCHANGED <<proxyVars, priceWidget, ikonCalculator, themeToggles>>

\* Variant: a fetch that is no longer the latest issued leaves the series,
\* the error flag and the loading flag alone.
ChartFetchSettlesLatestOnly(f, answer, now, random) ==
    /\ f \in chartWidget.pending
    /\ LET settled == ChartSettled(answer, now, random)
           completed == [chartWidget EXCEPT !.pending = chartWidget.pending \ {f},
                                            !.settled = [fetch |-> f, answer |-> answer]]
       IN  chartWidget' = IF f # Len(chartWidget.requests) THEN completed
                          ELSE [completed EXCEPT !.chartData = settled.chartData,
                                                 !.error = settled.error,
                                                 !.loading = FALSE]
    /\ UNCHANGED <<proxyVars, priceWidget, ikonCalculator, themeToggles>>

\* Variant: the catch block sets the error flag and leaves the series alone.
ChartFetchSettlesFlagOnly(f, answer, now, random) ==
    /\ f \in chartWidget.pending
    /\ LET settled == ChartSettled(answer, now, random)
       IN  chartWidget' = [chartWidget EXCEPT
                              !.chartData = IF ChartThrows(answer) THEN chartWidget.chartData
                                            ELSE settled.chartData,
                              !.error = settled.error,
                              !.loading = FALSE,
                              !.pending = chartWidget.pending \ {f},
                              !.settled = [fetch |-> f, answer |-> answer]]
    /\ UNCHANGED <<proxyVars, priceWidget, ikonCalculator, themeToggles>>

\* The rest of fetchChartData, run when its fetch f has settled to answer.
ChartFetchSettles(f, answer, now, random) ==
    /\ f \in chartWidget.pending
    /\ LET settled == ChartSettled(answer, now, random)
       IN  chartWidget' = [chartWidget EXCEPT !.chartData = settled.chartData,
                                              !.error = settled.error,
                                              !.loading = FALSE,
                                              !.pending = chartWidget.pending \ {f},
                                              !.settled = [fetch |-> f, answer |-> answer]]
    /\ UNCHANGED <<proxyVars, priceWidget, ikonCalculator, themeToggles>>

(***************************************************************************)
(* BitcoinPriceWidget.  Time is the widget's age in milliseconds; a tick   *)
(* of the interval that is due fires before time moves on.                 *)
(***************************************************************************)
\* fetchPrice() up to its first await.
FetchPrice(w) ==
    [w EXCEPT !.requests = Append(w.requests, w.elapsed),
              !.pending = w.pending \cup {Len(w.requests) + 1}]

\* The effect of []: fetchPrice(); setInterval(fetchPrice, 30000).
PriceMount ==
    /\ priceWidget.phase = "new"
    /\ priceWidget' = FetchPrice([priceWidget EXCEPT !.phase = "mounted",
                                                     !.interval = TRUE,
                                                     !.due = priceWidget.elapsed + IntervalMs])
    /\ UNCHANGED <<proxyVars, chartWidget, ikonCalculator, themeToggles>>

TickDue(w) == w.interval /\ w.elapsed >= w.due

PriceAdvance ==
    /\ priceWidget.phase # "new"
    /\ priceWidget.elapsed < MaxElapsed
    /\ ~TickDue(priceWidget)
    /\ priceWidget' = [priceWidget EXCEPT !.elapsed = priceWidget.elapsed + 10000]
    /\ UNCHANGED <<proxyVars, chartWidget, ikonCalculator, themeToggles>>

\* Variant: a tick that finds a fetch in flight issues none.
PriceTickGuarded ==
    /\ TickDue(priceWidget)
    /\ LET next == [priceWidget EXCEPT !.due = priceWidget.due + IntervalMs]
       IN  priceWidget' = IF priceWidget.pending # {} THEN next ELSE FetchPrice(next)
    /\ UNCHANGED <<proxyVars, chartWidget, ikonCalculator, themeToggles>>

\* The interval fires: fetchPrice().
PriceTick ==
    /\ TickDue(priceWidget)
    /\ priceWidget' = FetchPrice([priceWidget EXCEPT !.due = priceWidget.due + IntervalMs])
    /\ UNCHANGED <<proxyVars, chartWidget, ikonCalculator, themeToggles>>

\* Variant: a fetch that settles after the unmount sets no state.
PriceFetchSettlesWhileMounted(f, answer) ==
    /\ f \in priceWidget.pending
    /\ LET settled == PriceSettled(priceWidget.price, answer)
           completed == [priceWidget EXCEPT !.pending = priceWidget.pending \ {f},
                                            !.settled = [fetch |-> f, answer |-> answer]]
       IN  priceWidget' = IF priceWidget.phase = "unmounted" THEN completed
                          ELSE [completed EXCEPT !.price = settled.price,
                                                 !.error = settled.error]
    /\ UNCHANGED <<proxyVars, chartWidget, ikonCalculator, themeToggles>>

\* The rest of fetchPrice, run when its fetch f has settled to answer.
PriceFetchSettles(f, answer) ==
    /\ f \in priceWidget.pending
    /\ LET settled == PriceSettled(priceWidget.price, answer)
       IN  priceWidget' = [priceWidget EXCEPT !.price = settled.price,
                                              !.error = settled.error,
                                              !.pending = priceWidget.pending \ {f},
                                              !.settled = [fetch |-> f, answer |-> answer]]
    /\ UNCHANGED <<proxyVars, chartWidget, ikonCalculator, themeToggles>>

\* Variant: the effect returns no cleanup, the interval outlives the widget.
PriceUnmountNoCleanup ==
    /\ priceWidget.phase = "mounted"
    /\ priceWidget' = [priceWidget EXCEPT !.phase = "unmounted",
                                          !.issuedAtUnmount = Len(priceWidget.requests),
                                          !.pendingAtUnmount = priceWidget.pending]
    /\ UNCHANGED <<proxyVars, chartWidget, ikonCalculator, themeToggles>>

\* The cleanup of the effect: clearInterval(interval).
PriceUnmount ==
    /\ priceWidget.phase = "mounted"
    /\ priceWidget' = [priceWidget EXCEPT !.phase = "unmounted",
                                          !.interval = FALSE,
                                          !.issuedAtUnmount = Len(priceWidget.requests),
                                          !.pendingAtUnmount = priceWidget.pending]
    /\ UNCHANGED <<proxyVars, chartWidget, ikonCalculator, themeToggles>>

\* A click on one of the three unit buttons: setDisplayMode(mode).
setDisplayMode(mode) ==
    /\ priceWidget.phase = "mounted"
    /\ priceWidget' = [priceWidget EXCEPT !.displayMode = mode]
    /\ UNCHANGED <<proxyVars, chartWidget, ikonCalculator, themeToggles>>

\* window.location.reload(): the document is loaded anew, with every
\* component of the page as before its mount.
Reload ==
    /\ chartWidget' = ChartInitial
    /\ priceWidget' = PriceInitial
    /\ ikonCalculator' = CalculatorInitial
    /\ themeToggles' = ThemeInitial
    /\ UNCHANGED proxyVars

\* A click on the Retry button of the live-price widget.
PriceRetry ==
    /\ priceWidget.phase = "mounted"
    /\ PriceRetryShown(priceWidget)
    /\ Reload

\* A click on the Retry button of the chart area.
ChartRetry ==
    /\ chartWidget.mounted
    /\ ChartRetryShown(chartWidget.loading, chartWidget.error)
    /\ Reload

(***************************************************************************)
(* IkonPassCalculator.                                                     *)
(***************************************************************************)
\* A mount of the calculator, a new instance of the component: the useState
\* initial values, then the effect of []: fetchCurrentPrice() up to its first
\* await.
CalculatorMount ==
    /\ ~ikonCalculator.mounted
    /\ ikonCalculator.mounts < MaxMounts
    /\ ikonCalculator' = [CalculatorInitial EXCEPT
                             !.mounted = TRUE,
                             !.requests = Append(ikonCalculator.requests, TickerUrl),
                             !.pending = TRUE,
                             !.mounts = ikonCalculator.mounts + 1]
    /\ UNCHANGED <<proxyVars, chartWidget, priceWidget, themeToggles>>

\* The effect has no cleanup; the fetch of an unmounted instance sets the
\* state of no instance on the page.
CalculatorUnmount ==
    /\ ikonCalculator.mounted
    /\ ikonCalculator' = [ikonCalculator EXCEPT !.mounted = FALSE, !.pending = FALSE]
    /\ UNCHANGED <<proxyVars, chartWidget, priceWidget, themeToggles>>

\* The year select: setSelectedYear(e.target.value).
SetSelectedYear(year) ==
    /\ ikonCalculator.mounted
    /\ year # ikonCalculator.selectedYear
    /\ ikonCalculator' = [ikonCalculator EXCEPT !.selectedYear = year]
    /\ UNCHANGED <<proxyVars, chartWidget, priceWidget, themeToggles>>

\* The rest of fetchCurrentPrice, run when its fetch has settled to answer.
CalculatorFetchSettles(answer) ==
    /\ ikonCalculator.pending
    /\ ikonCalculator' = [ikonCalculator EXCEPT
                             !.btcPrice = BtcPriceSettled(answer),
                             !.pending = FALSE,
                             !.settled = [fetch |-> Len(ikonCalculator.requests),
                                          answer |-> answer]]
    /\ UNCHANGED <<proxyVars, chartWidget, priceWidget, themeToggles>>

(***************************************************************************)
(* ThemeToggle.                                                            *)
(***************************************************************************)
\* The instances mount with the page; the effect of each sets the
\* document's data-theme to dark.
ThemeMount ==
    /\ ~themeToggles.mounted
    /\ themeToggles' = [themeToggles EXCEPT !.mounted = TRUE, !.dataTheme = Present("dark")]
    /\ UNCHANGED <<proxyVars, chartWidget, priceWidget, ikonCalculator>>

\* toggleTheme of the instance t: the new theme is the opposite of the
\* instance's own state, and goes to that state and to the document.
toggleTheme(t) ==
    /\ themeToggles.mounted
    /\ Len(themeToggles.activations) < MaxActivations
    /\ LET newTheme == IF themeToggles.theme[t] = "dark" THEN "light" ELSE "dark"
       IN  themeToggles' = [themeToggles EXCEPT
                               !.theme[t] = newTheme,
                               !.dataTheme = Present(newTheme),
                               !.activations = Append(themeToggles.activations, t)]
    /\ UNCHANGED <<proxyVars, chartWidget, priceWidget, ikonCalculator>>

\* The theme toggles of the page.
NextTheme ==
    \/ ThemeMount
    \/ \E t \in Toggles : toggleTheme(t)

\* The page as it is loaded: no widget mounted yet.  The widgets do not
\* call the proxy route, whose credential is left unset.
InitPage == Init /\ env = Missing

\* The chart widget.
NextChart ==
    \/ ChartMount
    \/ \E tf \in TimeframeValues : SetTimeframe(tf)
    \/ \E f \in 1..(MaxClicks + 1), answer \in ChartAnswers, now \in Clock,
          random \in RandomDraws : ChartFetchSettles(f, answer, now, random)
    \/ ChartRetry

SpecChart == InitPage /\ [][NextChart]_vars

\* The chart widget and the calculator on the page, with few answers.
ChartAnswersPage ==
    {ChartRejected,
     ChartAnswer("response", 200, "prices", <<<<479900, 60000>>, <<479924, 66000>>>>)}

NextPage ==
    \/ ChartMount
    \/ \E tf \in TimeframeValues : SetTimeframe(tf)
    \/ \E f \in 1..(MaxClicks + 1), answer \in ChartAnswersPage, now \in Clock :
          ChartFetchSettles(f, answer, now, [i \in 1..MockLength |-> 0])
    \/ CalculatorMount
    \/ \E answer \in {TickerRejected, TickerAnswer("response", 200, "{\"USD\": {}}")} :
          CalculatorFetchSettles(answer)
    \/ CalculatorUnmount
    \/ ChartRetry

SpecPage == InitPage /\ [][NextPage]_vars

\* The live-price widget.
NextPrice ==
    \/ PriceMount
    \/ PriceAdvance
    \/ PriceTick
    \/ \E f \in 1..(1 + MaxElapsed \div IntervalMs), answer \in TickerAnswers :
          PriceFetchSettles(f, answer)
    \/ PriceUnmount
    \/ PriceRetry

SpecPrice == InitPage /\ [][NextPrice]_vars

\* The answers of the ticker the display is followed with: a rejection, a
\* price, a price of 0 and a body without a price.
TickerAnswersDisplay ==
    {TickerRejected,
     TickerAnswer("response", 200, "{\"USD\": {\"last\": 67000}}"),
     TickerAnswer("response", 200, "{\"USD\": {\"last\": 0}}"),
     TickerAnswer("response", 200, "{\"USD\": {}}")}

\* The live-price widget with its unit buttons and its Retry button.
NextDisplay ==
    \/ PriceMount
    \/ PriceAdvance
    \/ PriceTick
    \/ \E f \in 1..(1 + MaxElapsed \div IntervalMs), answer \in TickerAnswersDisplay :
          PriceFetchSettles(f, answer)
    \/ PriceUnmount
    \/ \E mode \in DisplayModes : setDisplayMode(mode)
    \/ PriceRetry

SpecDisplay == InitPage /\ [][NextDisplay]_vars

SpecTheme == InitPage /\ [][NextTheme]_vars

\* The calculator.
NextCalculator ==
    \/ CalculatorMount
    \/ \E year \in YearOptions : SetSelectedYear(year)
    \/ \E answer \in TickerAnswers : CalculatorFetchSettles(answer)
    \/ CalculatorUnmount

SpecCalculator == InitPage /\ [][NextCalculator]_vars

(***************************************************************************)
(* Properties of the route.                                                *)
(***************************************************************************)
Done(r) == pc[r] = "done"

\* The handler has read the credential.
PastEntry(r) == pc[r] \notin {"idle", "entry"}

HasBody(r) == request[r].method \in {"POST", "PATCH"}

\* The upstream answered the call of r with a status and headers.
Answered(r) == upstream[r].kind = "response"

\* C1: a request of any method handled while STRIKE_API_KEY is unset or empty
\* is answered with status 500 and an error containing "not configured", as
\* soon as the credential has been read, and no outbound call is made for it,
\* whatever its path, query and body.
C1_NotConfigured ==
    \A r \in Slots :
        PastEntry(r) /\ ~Truthy(apiKey[r])
        => /\ Done(r)
           /\ reply[r].status = 500
           /\ JsGet(reply[r].json, "error").type = "string"
           /\ Includes(JsGet(reply[r].json, "error").lit, "not configured")
           /\ calls[r] = <<>>
           /\ upstream[r] = NoAnswer

\* C1 witness: a POST whose body is no JSON, received with no credential set,
\* has been answered 500.
C1_Witness ==
    \E r \in Slots :
        /\ Done(r)
        /\ ~apiKey[r].set
        /\ request[r].method = "POST"
        /\ request[r].body = "nope"
        /\ request[r].search = "x=1"
        /\ reply[r].status = 500

\* C2: whenever the upstream answers a call with a success status and a JSON
\* body (a body served as application/json that parses as JSON), the reply to
\* the caller has the upstream's status and the upstream's JSON value as body.
C2_RelaysStatusAndBody ==
    \A r \in Slots :
        /\ Done(r)
        /\ Answered(r)
        /\ ResponseOk(upstream[r])
        /\ upstream[r].contentType.set
        /\ Includes(upstream[r].contentType.value, "application/json")
        /\ upstream[r].readable
        /\ JSONparse(upstream[r].text).ok
        => /\ reply[r].status = upstream[r].status
           /\ reply[r].json = JSONparse(upstream[r].text).value

\* C3: a non-success upstream status whose body has been read is answered with
\* exactly that status, the raw upstream text in message and the status in
\* status; response.json() is never awaited on a non-success response.
C3_FailureRelayed ==
    \A r \in Slots :
        /\ pc[r] = "json" => ResponseOk(upstream[r])
        /\ Done(r) /\ Answered(r) /\ ~ResponseOk(upstream[r]) /\ upstream[r].readable
           => /\ reply[r].status = upstream[r].status
              /\ JsGet(reply[r].json, "message") = JsString(upstream[r].text)
              /\ JsGet(reply[r].json, "status") = JsNumber(ToString(upstream[r].status))
              /\ JsGet(reply[r].json, "error") = JsString("Strike API request failed")
              /\ ~caught[r]

\* C3 witness: an upstream 404 whose text is no JSON has been relayed as 404.
C3_Witness ==
    \E r \in Slots :
        /\ Done(r)
        /\ Answered(r)
        /\ upstream[r].status = 404
        /\ upstream[r].text = "Not Found"
        /\ reply[r].status = 404
        /\ JsGet(reply[r].json, "message").lit = "Not Found"

\* The body {success: true}.
SuccessBody == JsObject(<<<<"success", JsLiteral("true")>>>>)

NoJsonContentType(r) ==
    ~upstream[r].contentType.set
    \/ ~Includes(upstream[r].contentType.value, "application/json")

\* C4 as stated: every DELETE upstream response without a JSON content type
\* yields the body {success: true}, whatever its status and body.
C4_DeleteAnyStatus ==
    \A r \in Slots :
        Done(r) /\ request[r].method = "DELETE" /\ Answered(r) /\ NoJsonContentType(r)
        => reply[r].json = SuccessBody

\* C4 amended: a DELETE upstream response with a success status and without a
\* JSON content type yields status 200 and exactly the body {success: true},
\* whatever the upstream body is, which is not read.
C4_DeleteSuccess ==
    \A r \in Slots :
        /\ request[r].method = "DELETE" /\ Answered(r) /\ NoJsonContentType(r)
           /\ ResponseOk(upstream[r])
           => /\ Done(r)
              /\ reply[r].json = SuccessBody
              /\ reply[r].status = 200
              /\ ~caught[r]

\* C4 witness: a DELETE answered 200 with a content type that differs from
\* application/json in case only, and a JSON body, got {success: true}.
C4_Witness ==
    \E r \in Slots :
        /\ Done(r)
        /\ request[r].method = "DELETE"
        /\ upstream[r].status = 200
        /\ upstream[r].contentType = Present("Application/JSON")
        /\ upstream[r].readable
        /\ upstream[r].text = "{\"id\": 7}"
        /\ reply[r].json = SuccessBody

\* An await of the handler of r has thrown: request.json() on a body that is
\* no JSON, the fetch, response.text() or response.json() on a body that fails
\* to arrive, response.json() on a body that is no JSON.
Threw(r) ==
    /\ PastEntry(r)
    /\ Truthy(apiKey[r])
    /\ \/ pc[r] \notin {"params", "body"} /\ HasBody(r) /\ ~JSONparse(request[r].body).ok
       \/ upstream[r].kind = "rejected"
       \/ /\ Answered(r)
          /\ pc[r] \notin {"text", "json"}
          /\ \/ ~ResponseOk(upstream[r]) /\ ~upstream[r].readable
             \/ /\ ResponseOk(upstream[r])
                /\ request[r].method = "DELETE" => ~NoJsonContentType(r)
                /\ ~upstream[r].readable \/ ~JSONparse(upstream[r].text).ok

\* C5: no handler ends in an unhandled exception, and a request one of whose
\* awaits threw is answered with status 500 and the error "Failed to
\* communicate with Strike API".
C5_ThrowsCaught ==
    \A r \in Slots :
        /\ pc[r] # "unhandled"
        /\ Threw(r)
           => /\ Done(r)
              /\ caught[r]
              /\ reply[r].status = 500
              /\ reply[r].json =
                    JsObject(<<<<"error", JsString("Failed to communicate with Strike API")>>>>)

\* C5 witness: a GET whose upstream answered 200 with a body that is no JSON
\* has been answered with the generic 500.
C5_Witness ==
    \E r \in Slots :
        /\ Done(r)
        /\ request[r].method = "GET"
        /\ Answered(r)
        /\ upstream[r].status = 200
        /\ upstream[r].readable
        /\ upstream[r].text = "Not Found"
        /\ Threw(r)
        /\ reply[r].status = 500

\* The outbound calls issued for r, whatever the handler's position.
CallsOf(r) == {calls[r][i] : i \in 1..Len(calls[r])}

\* C6 as stated: for each method the upstream URL is the base, '/', the path
\* segments joined by '/', then '?' and the inbound query string when that is
\* non-empty.
C6_QueryForwardedByAll ==
    \A r \in Slots : \A c \in CallsOf(r) :
        c.url = STRIKE_API_BASE \o "/" \o Join(request[r].path, "/")
                   \o (IF request[r].search # "" THEN "?" \o request[r].search ELSE "")

\* The query string as GET forwards it: the parsed parameters written back.
Reserialized(search) == SearchParamsToString(URLSearchParams(search))

\* C6 amended: the upstream URL is the base, '/', the path segments joined by
\* '/'; GET alone appends '?' and the query parameters, parsed and written
\* back as name=value pairs joined by '&', when there is at least one; POST,
\* PATCH and DELETE drop the inbound query string.
C6_QueryForwardedByGet ==
    \A r \in Slots : \A c \in CallsOf(r) :
        LET base == STRIKE_API_BASE \o "/" \o Join(request[r].path, "/")
        IN  /\ request[r].method # "GET" => c.url = base
            /\ request[r].method = "GET" /\ Reserialized(request[r].search) = ""
               => c.url = base
            /\ request[r].method = "GET" /\ Reserialized(request[r].search) # ""
               => c.url = base \o "?" \o Reserialized(request[r].search)
            /\ request[r].method = "GET" /\ request[r].path = <<"invoices", "42">>
               /\ request[r].search = "x&&y=2"
               => c.url = "https://api.strike.me/v1/invoices/42?x=&y=2"
            /\ request[r].method = "GET" /\ request[r].search = "x=1"
               => c.url = STRIKE_API_BASE \o "/" \o Join(request[r].path, "/") \o "?x=1"

\* C6 witness: a POST received with the query x=1 has issued its call to the
\* URL without the query.
C6_Witness ==
    \E r \in Slots : \E c \in CallsOf(r) :
        /\ request[r].method = "POST"
        /\ request[r].search = "x=1"
        /\ request[r].path = <<"foo">>
        /\ c.url = "https://api.strike.me/v1/foo"

\* C7: every outbound call carries the Authorization header 'Bearer ' followed
\* by the credential the handler read from process.env when it began, which is
\* configured and is not the inbound request's header, and has the method of
\* the inbound request.
C7_BearerFromEnv ==
    \A r \in Slots : \A c \in CallsOf(r) :
        /\ Truthy(apiKey[r])
        /\ c.authorization = "Bearer " \o apiKey[r].value
        /\ c.authorization # request[r].authorization
        /\ c.method = request[r].method

\* C7 witness: a PATCH has issued its call with the credential it read, after
\* which the configured credential has changed.
C7_Witness ==
    \E r \in Slots : \E c \in CallsOf(r) :
        /\ request[r].method = "PATCH"
        /\ c.method = "PATCH"
        /\ c.authorization = "Bearer sk_1"
        /\ env = Present("sk_2")

\* C8: the body of a POST or PATCH outbound call is a JSON text whose value is
\* the value of the inbound body; a GET or DELETE outbound call has no body.
C8_BodyForwarded ==
    \A r \in Slots : \A c \in CallsOf(r) :
        IF HasBody(r)
        THEN /\ c.body.set
             /\ JSONparse(request[r].body).ok
             /\ JSONparse(c.body.value).ok
             /\ JSONparse(c.body.value).value = JSONparse(request[r].body).value
             /\ body[r] = JSONparse(request[r].body).value
        ELSE ~c.body.set

\* C8 witness: a PATCH whose body is written with blanks has issued its call
\* with the same value written without.
C8_Witness ==
    \E r \in Slots : \E c \in CallsOf(r) :
        /\ request[r].method = "PATCH"
        /\ request[r].body = "{ \"a\": 1 }"
        /\ c.body = Present("{\"a\":1}")

\* C9 as stated: every request handled to completion has had exactly one
\* outbound call issued for it.
C9_ExactlyOneCall ==
    \A r \in Slots : Done(r) => Len(calls[r]) = 1

\* C9 amended: at most one outbound call is issued per inbound request, and a
\* request handled to completion has had exactly one issued where the
\* credential is configured and, for POST and PATCH, the inbound body parses
\* as JSON, and none otherwise; a failed call is not retried.
C9_AtMostOneCall ==
    \A r \in Slots :
        /\ Len(calls[r]) <= 1
        /\ Done(r) =>
              (Len(calls[r]) = 1
                  <=> /\ Truthy(apiKey[r])
                      /\ HasBody(r) => JSONparse(request[r].body).ok)
        /\ pc[r] \in {"fetch", "text", "json"} => Len(calls[r]) = 1
        /\ upstream[r] # NoAnswer => Len(calls[r]) = 1

\* C9 witness: a request whose call was rejected has been answered with that
\* one call issued.
C9_Witness ==
    \E r \in Slots :
        /\ Done(r)
        /\ upstream[r].kind = "rejected"
        /\ Len(calls[r]) = 1

\* The generic failure response.
GenericFailure ==
    [status |-> 500,
     json |-> JsObject(<<<<"error", JsString("Failed to communicate with Strike API")>>>>)]

\* The response to one request as a function of that request, the credential
\* its handler read and the upstream's answer to its own call.
Outcome(req, key, answer) ==
    IF ~Truthy(key)
    THEN [status |-> 500,
          json |-> JsObject(<<<<"error", JsString("Strike API key not configured")>>>>)]
    ELSE IF req.method \in {"POST", "PATCH"} /\ ~JSONparse(req.body).ok THEN GenericFailure
    ELSE IF answer.kind = "rejected" THEN GenericFailure
    ELSE IF answer.status < 200 \/ answer.status > 299
    THEN IF answer.readable
         THEN [status |-> answer.status,
               json |-> JsObject(<<<<"error", JsString("Strike API request failed")>>,
                                   <<"status", JsNumber(ToString(answer.status))>>,
                                   <<"message", JsString(answer.text)>>>>)]
         ELSE GenericFailure
    ELSE IF /\ req.method = "DELETE"
            /\ ~(answer.contentType.set
                 /\ Includes(answer.contentType.value, "application/json"))
    THEN [status |-> 200, json |-> SuccessBody]
    ELSE IF answer.readable /\ JSONparse(answer.text).ok
    THEN [status |-> 200, json |-> JSONparse(answer.text).value]
    ELSE GenericFailure

\* The outbound calls of one request as a function of that request and the
\* credential its handler read.
OutboundOf(req, key) ==
    IF ~Truthy(key) \/ (req.method \in {"POST", "PATCH"} /\ ~JSONparse(req.body).ok)
    THEN <<>>
    ELSE <<[url |-> STRIKE_API_BASE \o "/" \o Join(req.path, "/")
                      \o (IF req.method = "GET" /\ Reserialized(req.search) # ""
                          THEN "?" \o Reserialized(req.search) ELSE ""),
            method |-> req.method,
            authorization |-> "Bearer " \o key.value,
            contentType |-> "application/json",
            body |-> IF req.method \in {"POST", "PATCH"}
                     THEN Present(JSONstringify(JSONparse(req.body).value))
                     ELSE Missing]>>

\* C10: under every interleaving of the requests handled at once, the
\* response to a request and the outbound call made for it are functions of
\* that request, the credential its handler read and the upstream's answer to
\* its own call, and a request that has not returned has no response.
C10_Isolated ==
    \A r \in Slots :
        /\ Done(r) => /\ reply[r] = Outcome(request[r], apiKey[r], upstream[r])
                      /\ calls[r] = OutboundOf(request[r], apiKey[r])
        /\ ~Done(r) => reply[r] = NoReply
        /\ pc[r] \in {"fetch", "text", "json"}
           => calls[r] = OutboundOf(request[r], apiKey[r])

\* C10 witness: two requests handled at once under different credentials have
\* both returned, one relaying an upstream 404 and one the upstream's data.
C10_Witness ==
    /\ Done(1) /\ Done(2)
    /\ request[1].method = "POST" /\ request[2].method = "GET"
    /\ apiKey[1] = Present("sk_1") /\ apiKey[2] = Present("sk_2")
    /\ upstream[1].status = 404 /\ upstream[2].status = 200
    /\ reply[1].status = 404 /\ reply[2].status = 200

(***************************************************************************)
(* Properties of the widgets.                                              *)
(***************************************************************************)
\* The header of the chart widget shows the change: the widget is on the
\* page and not loading.
ChangeShown == chartWidget.mounted /\ ~chartWidget.loading

FirstPrice == chartWidget.chartData[1].price
LastPrice == chartWidget.chartData[Len(chartWidget.chartData)].price

\* A text of the form [-]digits.dd read back: whether it carries a minus
\* sign, and its magnitude in hundredths.
MinusShown(text) == StartsWith(text, 1, "-")

HundredthsShown(text) ==
    LET u == IF MinusShown(text) THEN SubSeq(text, 2, Len(text)) ELSE text
    IN  ToInt(SubSeq(u, 1, Len(u) - 3) \o SubSeq(u, Len(u) - 1, Len(u)))

\* The text is (last - first) / first * 100 rounded to hundredths: no
\* multiple of a hundredth is nearer, and a negative change carries the
\* minus sign.
RoundedChange(text) ==
    /\ 2 * Abs(HundredthsShown(text) * FirstPrice - Abs(LastPrice - FirstPrice) * 10000)
           <= FirstPrice
    /\ MinusShown(text) <=> LastPrice < FirstPrice

\* C11 as stated: the percentage shown is (last - first) / first * 100 rounded
\* to two decimals, and the '+' prefix is shown if and only if the value
\* displayed (the rounded one) is >= 0.
C11_PlusIffDisplayedNonNegative ==
    (ChangeShown /\ Len(chartWidget.chartData) >= 2) =>
        LET line == ChangeLine(chartWidget.chartData)
        IN  /\ RoundedChange(line.percentage)
            /\ line.prefix = "+" <=>
                   (~MinusShown(line.percentage) \/ HundredthsShown(line.percentage) = 0)

\* C11 amended: the percentage shown is (last - first) / first * 100 rounded to
\* two decimals, and the '+' prefix is shown if and only if last - first >= 0,
\* the change before rounding; a series of fewer than two samples shows +0.00.
C11_PlusIffChangeNonNegative ==
    ChangeShown =>
        LET line == ChangeLine(chartWidget.chartData)
        IN  IF Len(chartWidget.chartData) < 2
            THEN line = [prefix |-> "+", percentage |-> "0.00"]
            ELSE /\ RoundedChange(line.percentage)
                 /\ line.prefix = "+" <=> LastPrice >= FirstPrice

\* A fall that rounds to zero is on display: -0.00 without the '+'.
C11_Witness ==
    /\ ChangeShown
    /\ Len(chartWidget.chartData) >= 2
    /\ LastPrice < FirstPrice
    /\ ChangeLine(chartWidget.chartData) = [prefix |-> "", percentage |-> "-0.00"]

\* The chart fetch that completed last failed: its call was rejected, its
\* status was no success, or its payload could not be used.
ChartFailedLast == chartWidget.settled.fetch # 0 /\ ChartThrows(chartWidget.settled.answer)

\* C12: once a failed chart fetch has completed and loading has finished, the
\* chart draws a series of exactly 20 synthetic points, so it is not empty.
C12_FallbackDrawn ==
    (chartWidget.mounted /\ ChartFailedLast /\ ~chartWidget.loading) =>
        Len(DrawnPath(chartWidget.chartData, chartWidget.loading, chartWidget.error))
            = MockLength

\* const results = calculateWhatIf() of the calculator on the page.
Results == calculateWhatIf(ikonCalculator.selectedYear, ikonCalculator.btcPrice)

Years == {"2018", "2019", "2020", "2021", "2022", "2023", "2024"}

\* The current price the calculator works with: the price it fetched, or the
\* fallback while it has none.
CurrentPrice ==
    IF ikonCalculator.btcPrice.type = "number" /\ ToInt(ikonCalculator.btcPrice.lit) # 0
    THEN ToInt(ikonCalculator.btcPrice.lit)
    ELSE FallbackPrice

\* C13: the two tables have the year keys 2018..2024, and for the selected
\* year and the current price the BTC amount is passPrice / historicalBtcPrice
\* and the gain or loss is btcAmount * currentPrice - passPrice.
C13_WhatIf ==
    /\ DOMAIN ikonPrices = Years
    /\ DOMAIN btcHistoricalPrices = Years
    /\ ikonCalculator.mounted =>
          LET pass == ikonPrices[ikonCalculator.selectedYear]
              hist == btcHistoricalPrices[ikonCalculator.selectedYear]
          IN  /\ ikonCalculator.selectedYear \in Years
              /\ Finite(Results.btcAmount)
              /\ Results.btcAmount.n * hist = pass * Results.btcAmount.d
              /\ Results.gainLoss = Number(pass * CurrentPrice - pass * hist, hist)

\* The pass of 2018 at a fetched price of 67000: 999 / 6347 BTC, which is
\* 0.157397 to six decimals, and a gain.
C13_Witness ==
    /\ ikonCalculator.mounted
    /\ ~ikonCalculator.pending
    /\ ikonCalculator.selectedYear = "2018"
    /\ ikonCalculator.btcPrice = JsNumber("67000")
    /\ Results.btcAmount = Number(999, 6347)
    /\ 2 * Abs(157397 * Results.btcAmount.d - 1000000 * Results.btcAmount.n)
           <= Results.btcAmount.d
    /\ Results.gainLoss.n > 0

\* A call that ended in a network error or in a status that is no success.
NetworkOrStatusFailure(answer) == answer.kind = "rejected" \/ ~ResponseOk(answer)

\* The chart part of C14: the error flag is set once a chart fetch ending in a
\* network error or a non-success status has completed.
ChartFailureSetsError ==
    (chartWidget.settled.fetch # 0 /\ NetworkOrStatusFailure(chartWidget.settled.answer))
        => Truthy(chartWidget.error)

\* C14: in the live-price widget and in the chart widget alike, the error flag
\* is set once a fetch ending in a network error or in a non-success status
\* has completed, whatever the body of the response.
C14_FailureSetsError ==
    /\ (priceWidget.settled.fetch # 0 /\ NetworkOrStatusFailure(priceWidget.settled.answer))
          => Truthy(priceWidget.error)
    /\ ChartFailureSetsError

\* C15: the live-price widget issues one fetch as it mounts and one at each
\* 30-second tick of its timer while it is mounted (requests holds the age of
\* the widget at each fetch); unmounting cancels the timer, and no fetch is
\* issued after it.
C15_FetchOnMountAndTicks ==
    /\ priceWidget.phase = "new" => priceWidget.requests = <<>>
    /\ priceWidget.phase # "new" =>
          /\ Len(priceWidget.requests) >= 1
          /\ \A k \in DOMAIN priceWidget.requests :
                 priceWidget.requests[k] = (k - 1) * 30000
    /\ priceWidget.phase = "mounted" =>
          Len(priceWidget.requests) =
              IF priceWidget.elapsed = Len(priceWidget.requests) * 30000
              THEN priceWidget.elapsed \div 30000
              ELSE 1 + priceWidget.elapsed \div 30000
    /\ priceWidget.phase = "unmounted" =>
          /\ ~priceWidget.interval
          /\ Len(priceWidget.requests) = priceWidget.issuedAtUnmount

\* The widget fetched at its mount and at a tick, was unmounted, and has
\* since outlived the time of the next tick without a fetch.
C15_Witness ==
    /\ priceWidget.phase = "unmounted"
    /\ Len(priceWidget.requests) = 2
    /\ priceWidget.elapsed >= 60000

\* No chart fetch is in flight, and at least one was issued.
ChartQuiet == chartWidget.mounted /\ chartWidget.pending = {}

\* The series and the error flag are those a fetch settling to answer leaves.
ResultOf(answer) ==
    \E now \in Clock, random \in RandomDraws :
        /\ chartWidget.chartData = ChartSettled(answer, now, random).chartData
        /\ chartWidget.error = ChartSettled(answer, now, random).error

\* C16 as stated: whenever no chart fetch is in flight, the series held is the
\* result of the most recently issued fetch, whatever the order in which the
\* responses arrived.
C16_LatestIssuedWins ==
    ChartQuiet =>
        /\ chartWidget.settled.fetch = Len(chartWidget.requests)
        /\ ResultOf(chartWidget.settled.answer)

\* C16 amended: once a chart fetch has completed, the series held is the
\* result of the fetch that completed last, whichever was issued last; the
\* widget is not loading once none is in flight.
C16_LastCompletedWins ==
    /\ (chartWidget.mounted /\ chartWidget.settled.fetch # 0) =>
           ResultOf(chartWidget.settled.answer)
    /\ ChartQuiet => ~chartWidget.loading

\* Two fetches were issued and the first completed last: the payload of the
\* 7-day fetch is held while the 30-day timeframe is selected.
C16_Witness ==
    /\ ChartQuiet
    /\ Len(chartWidget.requests) = 2
    /\ chartWidget.timeframe = "30D"
    /\ chartWidget.settled.fetch = 1
    /\ ~ChartThrows(chartWidget.settled.answer)
    /\ chartWidget.chartData = FormattedData(chartWidget.settled.answer.prices)
    /\ Len(chartWidget.chartData) = 3

\* The timeframes a sequence of clicks changes to, from the one selected:
\* a click on the timeframe already selected changes nothing.
RECURSIVE Changes(_, _)
Changes(selected, clicks) ==
    IF clicks = <<>> THEN <<>>
    ELSE IF Head(clicks) = selected THEN Changes(selected, Tail(clicks))
    ELSE <<Head(clicks)>> \o Changes(Head(clicks), Tail(clicks))

DaysParameter(timeframe) ==
    CASE timeframe = "1D" -> "1" [] timeframe = "7D" -> "7" [] timeframe = "30D" -> "30"
      [] timeframe = "90D" -> "90" [] timeframe = "1Y" -> "365"

\* C17: the chart widget issues one GET as it mounts (days=7) and one for each
\* change of the timeframe (days = 1, 7, 30, 90 or 365 for 1D, 7D, 30D, 90D,
\* 1Y), and no other: none for a click on the selected timeframe, none after
\* a failure; the calculator issues one GET for each mount.
C17_OneFetchPerChange ==
    /\ ~chartWidget.mounted => chartWidget.requests = <<>>
    /\ chartWidget.mounted =>
          LET selected == <<"7D">> \o Changes("7D", chartWidget.clicks)
          IN  /\ Len(chartWidget.requests) = Len(selected)
              /\ \A k \in DOMAIN selected :
                     Includes(chartWidget.requests[k],
                              "&days=" \o DaysParameter(selected[k]) \o "&")
    /\ Len(ikonCalculator.requests) = ikonCalculator.mounts
    /\ \A k \in DOMAIN ikonCalculator.requests :
           ikonCalculator.requests[k] = "https://blockchain.info/ticker"

\* The chart was clicked twice on 1Y: two GETs in all, the last of them
\* failed and nothing is in flight; the calculator was mounted twice.
C17_Witness ==
    /\ chartWidget.mounted
    /\ chartWidget.clicks = <<"1Y", "1Y">>
    /\ Len(chartWidget.requests) = 2
    /\ chartWidget.pending = {}
    /\ chartWidget.settled.fetch = 2
    /\ ChartFailedLast
    /\ ikonCalculator.mounts = 2
    /\ Len(ikonCalculator.requests) = 2

\* The points of the series on display in the chart area.
Drawn == DrawnPath(chartWidget.chartData, chartWidget.loading, chartWidget.error)

Timestamp(k) == chartWidget.chartData[k].timestamp

\* C18 as stated: each sample's x is a linear function of its timestamp, the
\* earliest sample at the left padding (10) and the latest at the right
\* padding (390), so that unevenly spaced timestamps give unevenly spaced x.
C18_XLinearInTimestamp ==
    (Len(Drawn) >= 2 /\ Timestamp(Len(Drawn)) > Timestamp(1)) =>
        \A k \in DOMAIN Drawn :
            Drawn[k].x = Number(10 * (Timestamp(Len(Drawn)) - Timestamp(1))
                                   + 380 * (Timestamp(k) - Timestamp(1)),
                                Timestamp(Len(Drawn)) - Timestamp(1))

\* C18 amended: each sample's x is a linear function of its index in the
\* series, whatever its timestamp: in a series of n >= 2 samples the sample
\* at index i has x = 10 + i * 380 / (n - 1), the first at the left padding
\* and the last at the right padding; the x of a lone sample is NaN.
C18_XLinearInIndex ==
    /\ Len(Drawn) >= 2 =>
           /\ \A k \in DOMAIN Drawn :
                  Drawn[k].x = Number(10 * (Len(Drawn) - 1) + 380 * (k - 1), Len(Drawn) - 1)
           /\ Drawn[1].x = Number(10, 1)
           /\ Drawn[Len(Drawn)].x = Number(390, 1)
    /\ Len(Drawn) = 1 => Drawn[1].x = NaN

\* Three samples 1 hour and 4 hours apart are drawn at x = 10, 200 and 390.
C18_Witness ==
    /\ Len(Drawn) = 3
    /\ Timestamp(2) - Timestamp(1) = 1
    /\ Timestamp(3) - Timestamp(2) = 4
    /\ Drawn[1].x = Number(10, 1)
    /\ Drawn[2].x = Number(200, 1)
    /\ Drawn[3].x = Number(390, 1)

Price(k) == chartWidget.chartData[k].price

\* The point drawn for sample k lies in the drawing area, and at its bottom
\* for the lowest price and at its top for the highest.
WellPlaced(k) ==
    /\ Finite(Drawn[k].x)
    /\ AtLeast(Drawn[k].x, Whole(10)) /\ AtMost(Drawn[k].x, Whole(390))
    /\ Finite(Drawn[k].y)
    /\ AtLeast(Drawn[k].y, Whole(10)) /\ AtMost(Drawn[k].y, Whole(110))
    /\ (\A j \in DOMAIN Drawn : Price(k) <= Price(j)) => Drawn[k].y = Number(110, 1)
    /\ (/\ \A j \in DOMAIN Drawn : Price(k) >= Price(j)
        /\ \E j \in DOMAIN Drawn : Price(k) > Price(j)) => Drawn[k].y = Number(10, 1)

\* The coordinates of a series of two samples or more are well placed.
LongerSeriesWellPlaced == Len(Drawn) >= 2 => \A k \in DOMAIN Drawn : WellPlaced(k)

\* C19: for every non-empty series, of any length >= 1 and with equal prices
\* too, every coordinate is a number with 10 <= x <= 390 and 10 <= y <= 110,
\* the minimum price at y = 110 and the maximum at y = 10: no division by
\* zero is left unguarded.
C19_CoordinatesDefined == \A k \in DOMAIN Drawn : WellPlaced(k)

\* The outbound call of r has returned or thrown.
CallCompleted(r) == upstream[r] # NoAnswer

\* C20: a request whose outbound call returns or throws receives in the end
\* one response, of the status relayed from the upstream, 200 or 500, and
\* that response stays as it is until it is sent; a request whose outbound
\* call has not completed has no response, and nothing but the completion of
\* the call takes the handler past its fetch.
C20_EventuallyOneResponse ==
    /\ [](Done(1) /\ CallCompleted(1) =>
             reply[1].status \in
                 (IF Answered(1) THEN {upstream[1].status} ELSE {}) \cup {200, 500})
    /\ [](pc[1] = "fetch" => reply[1] = NoReply)
    /\ [][/\ (pc[1] = "fetch" /\ pc'[1] # "fetch") => CallCompleted(1)'
          /\ (Done(1) /\ pc'[1] # "idle") => (Done(1)' /\ reply'[1] = reply[1])]_vars
    /\ (CallCompleted(1) ~> Done(1))

\* A DELETE whose call came back with status 500 has its response, of
\* status 500, without the catch block having run.
C20_Witness ==
    /\ Done(1)
    /\ request[1].method = "DELETE"
    /\ Answered(1)
    /\ upstream[1].status = 500
    /\ ~caught[1]
    /\ reply[1].status = 500

\* C21: nothing guards the live-price widget against overlapping fetches.  A
\* tick issues its fetch whatever is in flight (so the fetches issued are the
\* one of the mount and one for each 30 seconds of age), and a fetch leaves
\* the set of those in flight only by settling, as long as the page is not
\* loaded anew: none is skipped, cancelled or coalesced.
C21_NoOverlapGuard ==
    /\ []((priceWidget.phase = "mounted" /\ ~TickDue(priceWidget)) =>
             Len(priceWidget.requests) = 1 + priceWidget.elapsed \div 30000)
    /\ [][priceWidget'.phase # "new" =>
              /\ priceWidget.due' # priceWidget.due =>
                    priceWidget.pending' =
                        priceWidget.pending \cup {Len(priceWidget.requests) + 1}
              /\ \A f \in priceWidget.pending \ priceWidget.pending' :
                    priceWidget.settled'.fetch = f]_vars

\* Two fetches of the mounted widget are in flight at once: the one of the
\* mount has outlasted the interval.
C21_Witness ==
    /\ priceWidget.phase = "mounted"
    /\ priceWidget.elapsed >= 30000
    /\ {1, 2} \subseteq priceWidget.pending

\* C22: unmounting the live-price widget cancels no fetch: those in flight at
\* the unmount stay in flight, and one that settles afterwards still sets the
\* state, the price and a clear error flag or a set error flag.
C22_InFlightSurvivesUnmount ==
    /\ [](priceWidget.phase = "unmounted" =>
             /\ priceWidget.pending \subseteq priceWidget.pendingAtUnmount
             /\ priceWidget.settled.fetch \in priceWidget.pendingAtUnmount =>
                    IF TickerThrows(priceWidget.settled.answer)
                    THEN Truthy(priceWidget.error)
                    ELSE /\ ~Truthy(priceWidget.error)
                         /\ priceWidget.price = TickerLast(priceWidget.settled.answer))
    /\ [][(priceWidget.phase = "mounted" /\ priceWidget.phase' = "unmounted") =>
              priceWidget.pending' = priceWidget.pending]_vars

\* The fetch of the mount was in flight at the unmount and has settled since,
\* to a price the unmounted widget now holds.
C22_Witness ==
    /\ priceWidget.phase = "unmounted"
    /\ priceWidget.pendingAtUnmount = {1}
    /\ priceWidget.pending = {}
    /\ priceWidget.settled.fetch = 1
    /\ priceWidget.price = JsNumber("67000")
    /\ ~Truthy(priceWidget.error)

\* The theme after a number of flips from dark.
Flipped(n) == IF n % 2 = 0 THEN "dark" ELSE "light"

\* C23: the theme is one value: the document's data-theme equals the theme
\* every toggle shows, and each activation of a toggle, the desktop or the
\* mobile one, flips it between dark and light, from dark at the start.
C23_SingleTheme ==
    themeToggles.mounted =>
        /\ \A t \in Toggles : themeToggles.dataTheme = Present(themeToggles.theme[t])
        /\ themeToggles.dataTheme = Present(Flipped(Len(themeToggles.activations)))

\* The fetch of the calculator on the page has completed.
CalculatorFetched ==
    /\ ikonCalculator.mounted
    /\ ~ikonCalculator.pending
    /\ ikonCalculator.settled.fetch = Len(ikonCalculator.requests)

\* A call that completed successfully with a non-zero price: a response of a
\* success status whose body holds a number other than 0 as USD.last.
FetchedNonZeroPrice(answer) ==
    /\ ~NetworkOrStatusFailure(answer)
    /\ ~TickerThrows(answer)
    /\ TickerLast(answer).type = "number"
    /\ ToInt(TickerLast(answer).lit) # 0

\* The same but for the status, which is not looked at.
ParsedNonZeroPrice(answer) ==
    /\ ~TickerThrows(answer)
    /\ TickerLast(answer).type = "number"
    /\ ToInt(TickerLast(answer).lit) # 0

\* The current price is the fetched one after a completed call that answer
\* accepts, and 70000 otherwise.
CurrentPriceBy(Accepted(_)) ==
    ikonCalculator.mounted =>
        LET current == CurrentBtcPrice(ikonCalculator.btcPrice)
        IN  /\ Finite(current) /\ current.n > 0
            /\ IF CalculatorFetched /\ Accepted(ikonCalculator.settled.answer)
               THEN current = Whole(ToInt(TickerLast(ikonCalculator.settled.answer).lit))
               ELSE current = Whole(70000)

\* The claim of C24 with a call counted as successful whatever its status.
CurrentPriceWhateverStatus == CurrentPriceBy(ParsedNonZeroPrice)

\* C24: the calculator's current price is the fetched price exactly when its
\* fetch has completed successfully with a non-zero price, and the fallback
\* 70000 when the fetch failed or has not completed; it is always a positive
\* number.
C24_CurrentPrice == CurrentPriceBy(FetchedNonZeroPrice)

\* C25: while its error flag is set the live-price widget shows 'Error' in
\* place of any price, a price fetched before included, and a Retry button
\* whose click reloads the whole page; a step that leaves the flag set leaves
\* the price held as it was, no price is made up.  While the flag is not set
\* there is no Retry button, and the widget shows 'Loading...' until a fetch
\* has completed, and the price of the fetch completed last once it brought
\* one.
C25_ErrorDisplay ==
    /\ [](priceWidget.phase = "mounted" =>
             /\ Truthy(priceWidget.error) =>
                    /\ PriceValue(priceWidget) = "Error"
                    /\ PriceRetryShown(priceWidget)
             /\ ~Truthy(priceWidget.error) =>
                    /\ ~PriceRetryShown(priceWidget)
                    /\ priceWidget.settled.fetch = 0 =>
                           PriceValue(priceWidget) = "Loading..."
                    /\ (/\ priceWidget.settled.fetch # 0
                        /\ ParsedNonZeroPrice(priceWidget.settled.answer)) =>
                           PriceValue(priceWidget) =
                               formatValue(TickerLast(priceWidget.settled.answer),
                                           priceWidget.displayMode))
    /\ [][/\ (priceWidget.phase = "mounted" /\ priceWidget'.phase = "new") =>
                /\ Truthy(priceWidget.error)
                /\ chartWidget' = ChartInitial
                /\ priceWidget' = PriceInitial
                /\ ikonCalculator' = CalculatorInitial
                /\ themeToggles' = ThemeInitial
          /\ (priceWidget'.phase = "mounted" /\ Truthy(priceWidget'.error)) =>
                priceWidget'.price = priceWidget.price]_vars

\* A price of 67000 was fetched and a later fetch failed: with the price
\* still held, which would read 0.1103 Homes in the Reno unit selected, the
\* widget shows 'Error' and the Retry button.
C25_Witness ==
    /\ priceWidget.phase = "mounted"
    /\ priceWidget.price = JsNumber("67000")
    /\ priceWidget.displayMode = "reno"
    /\ formatValue(priceWidget.price, priceWidget.displayMode) = "0.1103 Homes"
    /\ Truthy(priceWidget.error)
    /\ priceWidget.settled.fetch = 2
    /\ PriceValue(priceWidget) = "Error"
    /\ PriceRetryShown(priceWidget)

\* The handler of r is past its await of request.json().
PastBody(r) == pc[r] \notin {"idle", "entry", "params", "body"}

\* C26: a POST or PATCH handled with the credential configured whose body is
\* missing or is no JSON is answered with status 500 and the error "Failed to
\* communicate with Strike API" as soon as the body has been read, and no
\* outbound call is made for it.
C26_BadBodyNoCall ==
    \A r \in Slots :
        (/\ PastBody(r)
         /\ HasBody(r)
         /\ Truthy(apiKey[r])
         /\ ~JSONparse(request[r].body).ok)
        => /\ Done(r)
           /\ caught[r]
           /\ reply[r] = GenericFailure
           /\ calls[r] = <<>>
           /\ upstream[r] = NoAnswer

\* A PATCH without a body, received with the credential set, has been
\* answered with the generic 500 and no call.
C26_Witness ==
    \E r \in Slots :
        /\ Done(r)
        /\ request[r].method = "PATCH"
        /\ request[r].body = ""
        /\ Truthy(apiKey[r])
        /\ reply[r].status = 500
        /\ calls[r] = <<>>

\* The upstream answered the call of r with a success status.
UpstreamSucceeded(r) == Answered(r) /\ ResponseOk(upstream[r])

\* The body of the upstream's answer to r reads as a JSON text.
UpstreamBodyIsJson(r) == upstream[r].readable /\ JSONparse(upstream[r].text).ok

\* C27: a GET, POST or PATCH whose upstream call came back with a success
\* status and a body that is empty or no JSON (a 204, say) is answered with
\* status 500 and the error "Failed to communicate with Strike API", whatever
\* the content type, and with the body's value under status 200 where it is
\* JSON, whatever the content type; DELETE alone looks at the content type
\* before it parses, and answers { success: true } where it is not JSON.
C27_SuccessWithoutJson ==
    \A r \in Slots :
        (Done(r) /\ UpstreamSucceeded(r)) =>
            IF request[r].method = "DELETE" /\ ~IsJsonContentType(upstream[r].contentType)
            THEN reply[r] = SuccessReply /\ ~caught[r]
            ELSE IF UpstreamBodyIsJson(r)
            THEN /\ reply[r] = NextResponseJson(JSONparse(upstream[r].text).value, 200)
                 /\ ~caught[r]
            ELSE reply[r] = GenericFailure /\ caught[r]

\* A POST whose call came back 204 without a content type and without a body
\* has been answered with the generic 500.
C27_Witness ==
    \E r \in Slots :
        /\ Done(r)
        /\ request[r].method = "POST"
        /\ Len(calls[r]) = 1
        /\ upstream[r] = Response(204, Missing, TRUE, "")
        /\ reply[r] = GenericFailure

\* A synthetic series: 20 samples a day apart, the last of them at the time
\* it was made, at prices from 65000 up to 75000.
Synthetic(series) ==
    /\ Len(series) = 20
    /\ \E now \in Clock :
           \A i \in 1..20 :
               /\ series[i].timestamp = now - (20 - i) * 24
               /\ series[i].price >= 65000
               /\ series[i].price < 75000

\* The series is the payload of a fetch that succeeded, sample for sample.
PayloadOf(series, answer) ==
    /\ answer.kind = "response"
    /\ ResponseOk(answer)
    /\ answer.payload = "prices"
    /\ Len(series) = Len(answer.prices)
    /\ \A i \in DOMAIN series :
           /\ series[i].timestamp = answer.prices[i][1]
           /\ series[i].price = answer.prices[i][2]

\* C28: the chart's error flag and its series are set together: before a
\* fetch has completed the flag is clear and the series empty, and afterwards,
\* in whatever order the fetches complete, either the flag is clear and the
\* series is the payload of a successful fetch, the one completed last, or
\* the flag is set and the series is the synthetic one of 20 samples.
C28_FlagAndSeriesTogether ==
    IF chartWidget.settled.fetch = 0
    THEN ~Truthy(chartWidget.error) /\ chartWidget.chartData = <<>>
    ELSE IF Truthy(chartWidget.error)
    THEN /\ Synthetic(chartWidget.chartData)
         /\ ChartThrows(chartWidget.settled.answer)
    ELSE /\ PayloadOf(chartWidget.chartData, chartWidget.settled.answer)
         /\ \E answer \in ChartAnswers : PayloadOf(chartWidget.chartData, answer)

\* Three fetches completed out of order, the second issued last and failing
\* after two that brought series: the flag is set and the series synthetic.
C28_Witness ==
    /\ Len(chartWidget.requests) = 3
    /\ chartWidget.pending = {}
    /\ chartWidget.settled.fetch = 2
    /\ Truthy(chartWidget.error)
    /\ Synthetic(chartWidget.chartData)
    /\ chartWidget.chartData[20].price = 69740

\* The price and the flag after each completion, with IsFailure telling the
\* fetches that count as failed: a failed fetch leaves the price as it was
\* and sets the flag, any other sets the price and clears the flag.
PriceFrame(IsFailure(_)) ==
    (priceWidget'.settled # priceWidget.settled /\ priceWidget'.settled.fetch # 0) =>
        IF IsFailure(priceWidget'.settled.answer)
        THEN /\ priceWidget'.price = priceWidget.price
             /\ Truthy(priceWidget'.error)
        ELSE /\ priceWidget'.price = TickerLast(priceWidget'.settled.answer)
             /\ ~Truthy(priceWidget'.error)

\* The claim of C29 with the fetches whose try block threw as the failed
\* ones, whatever the status of the response.
FlagIffLastThrew ==
    /\ [](priceWidget.settled.fetch # 0 =>
             (Truthy(priceWidget.error) <=> TickerThrows(priceWidget.settled.answer)))
    /\ [][PriceFrame(TickerThrows)]_vars

\* A fetch of the ticker that failed: its call was rejected, its status was
\* no success, or its body held no parsable price object.
TickerFailed(answer) == NetworkOrStatusFailure(answer) \/ TickerThrows(answer)

\* C29: in the live-price widget a failed fetch leaves the price held as it
\* was and sets the error flag, and a successful one sets the price and
\* clears the flag; so after any completions, in the order they completed,
\* the flag is set if and only if the fetch completed last failed, and the
\* price is that of the successful fetch completed last.
C29_FlagIffLastFailed ==
    /\ [](priceWidget.settled.fetch # 0 =>
             (Truthy(priceWidget.error) <=> TickerFailed(priceWidget.settled.answer)))
    /\ [][PriceFrame(TickerFailed)]_vars

\* What the chart widget on the page draws.
AreaShown == ChartArea(chartWidget.loading, chartWidget.error)

PointsShown == DataPoints(chartWidget.chartData, chartWidget.loading, chartWidget.error)

RangeShown == PriceRangeShown(chartWidget.chartData, chartWidget.loading, chartWidget.error)

====
